---- MODULE Spec2Model ----
(***************************************************************************)
(* LensOS demand-planning pipeline: the production planner                 *)
(* (recommendation_engine.py), the capacity optimizer                      *)
(* (capacity_optimizer.py) and the scenario simulator                      *)
(* (scenario_simulator.py), as a state machine over the persisted tables;  *)
(* the recursive forecaster (train_forecast.py), the cold-start predictor  *)
(* (unseen_sku_predictor.py) and the saving and reading of a csv table,    *)
(* each with a specification of its own.                                   *)
(*                                                                         *)
(* Number representation.  The program computes in binary floating point;  *)
(* the model computes the same expressions exactly, in fixed point:        *)
(*   predicted_demand, store/city/total demand, shortage_units : cents     *)
(*       (1/100 unit; the forecaster writes round(predicted_demand, 2))    *)
(*   stock_level, recommended/optimized/allocated quantities   : units     *)
(*   base_cost                                                 : cents     *)
(*   margin                                          : 1/10 cent (x 10)    *)
(*   revenue_captured, revenue_lost, revenues    : 1/20000 currency unit   *)
(*   risk_probability                                    : 1/100           *)
(*   utilization and change percentages                  : 1/10 percent    *)
(*   demand_multiplier, price_multiplier                 : 1/100           *)
(*   capacity_change_pct                                 : 1/1000 percent  *)
(* round() is round-half-to-even, as Python and numpy round.  Catalog      *)
(* costs are a few cents, so that every revenue stays within the integers  *)
(* the checker computes with.                                              *)
(***************************************************************************)
EXTENDS Integers, Sequences, FiniteSets, TLC

VARIABLES
    forecast,                   \* forecast_next_week.csv
    products,                   \* products.csv
    inventory,                  \* inventory.csv
    production_plan,            \* production_plan.csv
    allocation_plan,            \* allocation_plan.csv
    stock_risk,                 \* stock_risk.csv
    optimized_production_plan,  \* optimized_production_plan.csv
    scenario_results,           \* scenario_results.csv
    planner_response,           \* what the planner pipeline last returned
    capacity_response,          \* what get-capacity-plan last returned
    scenario_response,          \* what run-scenario last returned
    solver_ties,                \* how the LP solver resolves equally good plans
    forecaster,                 \* a run of train_forecast.recursive_forecast
    predictor,                  \* the UnseenSKUPredictor and its last answer
    csv_io,                     \* a csv file, its writer and its reader
    trainer                     \* the training steps of train_forecast.py

vars == <<forecast, products, inventory, production_plan, allocation_plan,
          stock_risk, optimized_production_plan, scenario_results,
          planner_response, capacity_response, scenario_response, solver_ties,
          forecaster, predictor, csv_io, trainer>>

\* The state of the planning services, and the state of the other programs.
planning_vars == <<forecast, products, inventory, production_plan,
                   allocation_plan, stock_risk, optimized_production_plan,
                   scenario_results, planner_response, capacity_response,
                   scenario_response, solver_ties>>

other_vars == <<forecaster, predictor, csv_io, trainer>>

\* A table is a record: whether its file exists, and its rows.
NoFile == [exists |-> FALSE, rows |-> {}]
File(rows) == [exists |-> TRUE, rows |-> rows]

\* A float that may be NaN or infinite (a division by zero in numpy).
Finite(v) == [kind |-> "finite", value |-> v]
NotANumber == [kind |-> "nan", value |-> 0]
Infinite == [kind |-> "inf", value |-> 0]

\* A cell of a table that holds no value (NaN after a left merge): price bands
\* are strings, costs and stock levels are never negative.
NoBand == "NaN"
NoCost == -1
NoSnapshot == -1

-----------------------------------------------------------------------------
(* Bounds of the model *)

\* The largest forecast row is MaxLots lots of 35,000.00.
MaxLots == 1
\* Stock levels of the inventory snapshots are 0..MaxStock.
MaxStock == 1

-----------------------------------------------------------------------------
(* Arithmetic *)

Max(a, b) == IF a >= b THEN a ELSE b
Min(a, b) == IF a <= b THEN a ELSE b

RECURSIVE ProductNat(_, _, _)
\* a * m as [q, r] with a * m = q * d + r and 0 <= r < d, for m >= 0 and
\* d > 0, by doubling, so that no intermediate value leaves the integers the
\* checker computes with.
ProductNat(a, m, d) ==
    IF m = 0 THEN [q |-> 0, r |-> 0]
    ELSE LET h == ProductNat(a, m \div 2, d)
             q2 == 2 * h.q + (2 * h.r) \div d
             r2 == (2 * h.r) % d
         IN  IF m % 2 = 0 THEN [q |-> q2, r |-> r2]
             ELSE [q |-> q2 + (a \div d) + (r2 + (a % d)) \div d,
                   r |-> (r2 + (a % d)) % d]

Product(a, m, d) == IF m < 0 THEN ProductNat(-a, -m, d) ELSE ProductNat(a, m, d)

\* round(): q + r/d to the nearest integer, ties to even.
RoundQR(x, d) ==
    IF 2 * x.r < d THEN x.q
    ELSE IF 2 * x.r > d THEN x.q + 1
    ELSE IF x.q % 2 = 0 THEN x.q ELSE x.q + 1

\* int(): q + r/d with the fraction dropped, towards zero.
TruncateQR(x) == IF x.q >= 0 \/ x.r = 0 THEN x.q ELSE x.q + 1

\* round(n / d) and round(a * m / d), d > 0.
RoundHalfEven(n, d) == RoundQR([q |-> n \div d, r |-> n % d], d)
RoundHalfEvenMul(a, m, d) == RoundQR(Product(a, m, d), d)

RECURSIVE SumOver(_, _)
\* The sum of f[x] for x in S.
SumOver(S, f) ==
    IF S = {} THEN 0
    ELSE LET x == CHOOSE y \in S : TRUE
         IN  f[x] + SumOver(S \ {x}, f)

-----------------------------------------------------------------------------
(* Master data *)

Stores == {"st1", "st2"}
SKUs == {"s1", "s2"}

\* stores.csv: the city of each store.
StoreCity(store_id) == IF store_id = "st1" THEN "A" ELSE "B"

\* The order pandas gives the rows of a groupby on (sku_id, power_cluster).
RowRank(row) ==
    (IF row.sku_id = "s1" THEN 0 ELSE IF row.sku_id = "s2" THEN 2 ELSE 4)
        + (IF row.power_cluster = "c1" THEN 0 ELSE 1)

-----------------------------------------------------------------------------
(* Production planner: recommendation_engine.py *)

DemandOf(rows) == SumOver(rows, [r \in rows |-> r.predicted_demand])

\* groupby(['sku_id', 'power_cluster'])['predicted_demand'].sum()
SkuPowerDemand(fc) ==
    { [sku_id |-> g[1], power_cluster |-> g[2],
       total_predicted_demand |->
           DemandOf({r \in fc : r.sku_id = g[1] /\ r.power_cluster = g[2]})] :
      g \in { <<r.sku_id, r.power_cluster>> : r \in fc } }

\* groupby(['city', 'sku_id', 'power_cluster'])['predicted_demand'].sum()
CitySkuDemand(fc) ==
    { [city |-> g[1], sku_id |-> g[2], power_cluster |-> g[3],
       city_predicted_demand |->
           DemandOf({r \in fc : r.city = g[1] /\ r.sku_id = g[2]
                                /\ r.power_cluster = g[3]})] :
      g \in { <<r.city, r.sku_id, r.power_cluster>> : r \in fc } }

\* groupby(['store_id', 'sku_id', 'power_cluster'])['predicted_demand'].sum()
StoreDemand(fc) ==
    { [store_id |-> g[1], sku_id |-> g[2], power_cluster |-> g[3],
       store_predicted_demand |->
           DemandOf({r \in fc : r.store_id = g[1] /\ r.sku_id = g[2]
                                /\ r.power_cluster = g[3]})] :
      g \in { <<r.store_id, r.sku_id, r.power_cluster>> : r \in fc } }

\* A variant that drops the fraction instead of rounding.
RecommendedQtyFloor(total_cents, scale) ==
    Product(total_cents, scale * 115, 1000000).q
\* (total demand * 1.15).round().astype(int), the demand in cents scaled by
\* scale/100 first (scale = 100 in the planner, the demand multiplier in a
\* scenario).
RecommendedQty(total_cents, scale) ==
    RoundHalfEvenMul(total_cents, scale * 115, 1000000)

generate_production_recommendations(sku_power_demand) ==
    { [sku_id |-> g.sku_id, power_cluster |-> g.power_cluster,
       recommended_production_qty |-> RecommendedQty(g.total_predicted_demand, 100)] :
      g \in sku_power_demand }

\* allocation_proportion is city demand / total demand: 0/0 = NaN when the
\* group's total demand is 0, and astype(int) raises on NaN.
AllocationRaises(sku_power_demand) ==
    \E g \in sku_power_demand : g.total_predicted_demand = 0

\* A variant that drops the fraction of each city's share instead of rounding.
allocate_inventory_floor(city_sku_demand, sku_power_demand, plan) ==
    { [city |-> c.city, sku_id |-> c.sku_id, power_cluster |-> c.power_cluster,
       allocated_units |->
           LET g == CHOOSE x \in sku_power_demand :
                        x.sku_id = c.sku_id /\ x.power_cluster = c.power_cluster
               p == CHOOSE x \in plan :
                        x.sku_id = c.sku_id /\ x.power_cluster = c.power_cluster
           IN  Product(c.city_predicted_demand, p.recommended_production_qty,
                       g.total_predicted_demand).q] :
      c \in city_sku_demand }

\* (allocation_proportion * recommended_production_qty).round().astype(int)
\* per (city, sku, cluster), the proportion being city demand / total demand.
allocate_inventory(city_sku_demand, sku_power_demand, plan) ==
    { [city |-> c.city, sku_id |-> c.sku_id, power_cluster |-> c.power_cluster,
       allocated_units |->
           LET g == CHOOSE x \in sku_power_demand :
                        x.sku_id = c.sku_id /\ x.power_cluster = c.power_cluster
               p == CHOOSE x \in plan :
                        x.sku_id = c.sku_id /\ x.power_cluster = c.power_cluster
           IN  RoundHalfEvenMul(c.city_predicted_demand, p.recommended_production_qty,
                                g.total_predicted_demand)] :
      c \in city_sku_demand }

\* stock_level of the (store, sku) snapshot, 0 when there is none (fillna(0)).
StockLevel(inv, store_id, sku_id) ==
    IF inv[<<store_id, sku_id>>] = NoSnapshot THEN 0 ELSE inv[<<store_id, sku_id>>]

\* (demand - stock).clip(lower=0).round(2), in cents.
ShortageUnits(demand_cents, stock) ==
    RoundHalfEven(Max(0, demand_cents - stock * 100) * 10, 10)

\* A variant that drops the third decimal instead of rounding.
RiskProbabilityFloor(shortage_cents, demand_cents) ==
    Min(100, Product(shortage_cents * 10, 100, demand_cents * 10 + 1).q)
\* (shortage / (demand + 0.001)).clip(upper=1.0).round(2), in hundredths.
RiskProbability(shortage_cents, demand_cents) ==
    LET n == shortage_cents * 10
        d == demand_cents * 10 + 1
    IN  IF n >= d THEN 100 ELSE RoundHalfEvenMul(n, 100, d)

RiskRow(s, inv) ==
    LET stock == StockLevel(inv, s.store_id, s.sku_id)
        shortage == ShortageUnits(s.store_predicted_demand, stock)
    IN  [store_id |-> s.store_id, city |-> StoreCity(s.store_id),
         sku_id |-> s.sku_id, power_cluster |-> s.power_cluster,
         store_predicted_demand |-> s.store_predicted_demand,
         stock_level |-> stock,
         shortage_units |-> shortage,
         risk_probability |-> RiskProbability(shortage, s.store_predicted_demand)]

\* A variant of the filter that keeps the rows without a shortage.
IsRiskAll(row) == row.shortage_units >= 0
\* The filter of the stock-risk table: shortage_units > 0.
IsRisk(row) == row.shortage_units > 0

detect_stockout_risks(store_demand, inv) ==
    { r \in { RiskRow(s, inv) : s \in store_demand } : IsRisk(r) }

-----------------------------------------------------------------------------
(* Capacity optimizer: capacity_optimizer.py *)

TOTAL_DAILY_CAPACITY == 10000
PRODUCTION_DAYS == 7
TOTAL_CAPACITY == TOTAL_DAILY_CAPACITY * PRODUCTION_DAYS

\* MARGIN_MAP, times 10; a band the map does not know gets 1.0 (fillna(1.0)).
MARGIN_MAP(price_band) ==
    CASE price_band = "low" -> 10
      [] price_band = "mid" -> 13
      [] price_band = "high" -> 16
      [] price_band = "premium" -> 20
      [] OTHER -> 10

RECURSIVE SortedCosts(_)
\* The base_cost column of the rows, in ascending order.
SortedCosts(rows) ==
    IF rows = {} THEN <<>>
    ELSE LET r == CHOOSE x \in rows : \A y \in rows : x.base_cost <= y.base_cost
         IN  <<r.base_cost>> \o SortedCosts(rows \ {r})

\* df['base_cost'].median(): the median of the cells that hold a value, NaN
\* when none does.
MedianCost(rows) ==
    LET s == SortedCosts({r \in rows : r.base_cost # NoCost})
        n == Len(s)
    IN  IF n = 0 THEN NoCost
        ELSE IF n % 2 = 1 THEN s[(n + 1) \div 2]
        ELSE (s[n \div 2] + s[n \div 2 + 1]) \div 2

\* production.merge(sku_band, on='sku_id', how='left')
MergeCatalog(production, catalog) ==
    { [sku_id |-> p.sku_id, power_cluster |-> p.power_cluster,
       recommended_production_qty |-> p.recommended_production_qty,
       price_band |-> IF catalog[p.sku_id].listed
                      THEN catalog[p.sku_id].price_band ELSE NoBand,
       base_cost |-> IF catalog[p.sku_id].listed
                     THEN catalog[p.sku_id].base_cost ELSE NoCost] :
      p \in production }

\* price_band.fillna('mid'); base_cost.fillna(median); margin = multiplier * cost
WithMargin(merged) ==
    LET median == MedianCost(merged)
    IN  { LET band == IF r.price_band = NoBand THEN "mid" ELSE r.price_band
              cost == IF r.base_cost = NoCost THEN median ELSE r.base_cost
          IN  [sku_id |-> r.sku_id, power_cluster |-> r.power_cluster,
               recommended_production_qty |-> r.recommended_production_qty,
               price_band |-> band, base_cost |-> cost,
               margin |-> IF cost = NoCost THEN NoCost
                          ELSE MARGIN_MAP(band) * cost] :
          r \in merged }

\* linprog rejects an objective that holds a NaN with a ValueError.
ObjectiveHasNaN(rows) == \E r \in rows : r.margin = NoCost

\* The LP has no solution exactly when the capacity is negative (every bound
\* 0 <= x_i <= recommended_i is satisfiable on its own).
SolverSucceeds(rows, capacity) == capacity >= 0

\* Row j is filled before row i by the solver: a larger margin first; among
\* equal margins the solver's own choice of vertex, here by row order.
FilledBefore(j, i, ties) ==
    \/ j.margin > i.margin
    \/ /\ j.margin = i.margin
       /\ IF ties.order = "first" THEN RowRank(j) < RowRank(i)
                                  ELSE RowRank(j) > RowRank(i)

\* A variant that fills the rows to their bound in the order of the plan's
\* rows, whatever their margins.
SolutionInRowOrder(rows, capacity, ties, i) ==
    LET before == { j \in rows : RowRank(j) < RowRank(i) }
        used == SumOver(before, [j \in before |-> j.recommended_production_qty])
    IN  Min(i.recommended_production_qty, Max(0, capacity - used))

\* np.round(result.x).astype(int) of an optimal vertex of
\*   max sum(margin_i x_i)  s.t.  sum(x_i) <= capacity, 0 <= x_i <= recommended_i:
\* rows are filled to their bound in order of margin until the capacity is
\* used up; a row of margin 0 does not change the objective and is left at the
\* bound the solver's vertex has it at.
Solution(rows, capacity, ties, i) ==
    LET before == { j \in rows : FilledBefore(j, i, ties) }
        used == SumOver(before, [j \in before |-> j.recommended_production_qty])
    IN  IF i.margin = 0 /\ ties.zero_margin = "lower" THEN 0
        ELSE Min(i.recommended_production_qty, Max(0, capacity - used))

\* round(total_optimized / capacity * 100, 1), in tenths of a percent; numpy
\* gives NaN for 0/0 and an infinity for x/0.
Utilization(total, capacity) ==
    IF capacity = 0 THEN (IF total = 0 THEN NotANumber ELSE Infinite)
    ELSE IF capacity > 0 THEN Finite(RoundHalfEvenMul(total, 1000, capacity))
    ELSE Finite(RoundHalfEvenMul(-total, 1000, -capacity))

\* A variant of the fallback that produces nothing.
FallbackQtyZero(i) == 0
\* The fallback when result.success is false: optimized_qty = recommended.
FallbackQty(i) == i.recommended_production_qty

\* CapacityOptimizer.optimise(capacity) on a production table and a catalog.
optimise(production, catalog, capacity, ties) ==
    LET rows == WithMargin(MergeCatalog(production, catalog))
        ok == SolverSucceeds(rows, capacity)
        qty == [i \in rows |-> IF ok THEN Solution(rows, capacity, ties, i)
                                     ELSE FallbackQty(i)]
        total == SumOver(rows, qty)
    IN  IF ObjectiveHasNaN(rows)
        THEN [raised |-> TRUE, warning |-> FALSE, capacity |-> capacity, rows |-> {}]
        ELSE [raised |-> FALSE, warning |-> ~ok, capacity |-> capacity,
              rows |->
                { [sku_id |-> i.sku_id, power_cluster |-> i.power_cluster,
                   recommended_production_qty |-> i.recommended_production_qty,
                   price_band |-> i.price_band, base_cost |-> i.base_cost,
                   margin |-> i.margin,
                   optimized_qty |-> qty[i],
                   capacity_utilization_pct |-> Utilization(total, capacity),
                   revenue_captured |-> qty[i] * i.base_cost * 300,
                   revenue_lost |->
                       (i.recommended_production_qty - qty[i]) * i.base_cost * 300] :
                  i \in rows }]

\* CapacityOptimizer.summary(df)
summary(rows) ==
    LET total_optimized == SumOver(rows, [r \in rows |-> r.optimized_qty])
        total_recommended ==
            SumOver(rows, [r \in rows |-> r.recommended_production_qty])
    IN  [total_capacity |-> TOTAL_CAPACITY,
         total_optimized |-> total_optimized,
         total_recommended |-> total_recommended,
         capacity_utilization_pct |->
             RoundHalfEvenMul(total_optimized, 1000, TOTAL_CAPACITY),
         revenue_captured |-> SumOver(rows, [r \in rows |-> r.revenue_captured]),
         revenue_lost |-> SumOver(rows, [r \in rows |-> r.revenue_lost]),
         units_cut |-> total_recommended - total_optimized]

-----------------------------------------------------------------------------
(* Scenario simulator: scenario_simulator.py *)

\* int(baseline_capacity * (1 + capacity_change_pct / 100)), the percentage
\* in thousandths of a percent.
ScenarioCapacity(capacity_change_pct) ==
    TruncateQR(Product(TOTAL_DAILY_CAPACITY * PRODUCTION_DAYS,
                       100000 + capacity_change_pct, 100000))

\* The production plan recomputed from the forecast scaled by demand_multiplier.
ScenarioPlan(fc, demand_multiplier) ==
    { [sku_id |-> g.sku_id, power_cluster |-> g.power_cluster,
       recommended_production_qty |->
           RecommendedQty(g.total_predicted_demand, demand_multiplier)] :
      g \in SkuPowerDemand(fc) }

\* (recommended * base_cost * 1.5).sum() over the persisted plan, the missing
\* costs filled with the median; pandas' sum skips the cells still NaN.
BaselineRevenue(production, catalog) ==
    LET merged == MergeCatalog(production, catalog)
        median == MedianCost(merged)
        cost(r) == IF r.base_cost = NoCost THEN median ELSE r.base_cost
    IN  SumOver(merged,
                [r \in merged |-> IF cost(r) = NoCost THEN 0
                                  ELSE r.recommended_production_qty * cost(r) * 300])

\* A variant that scales the quantities with the price as well.
ScalePriceAndQty(rows, price_multiplier) ==
    { [r EXCEPT !.revenue_captured =
                    RoundHalfEvenMul(r.revenue_captured, price_multiplier, 100),
                !.revenue_lost = RoundHalfEvenMul(r.revenue_lost, price_multiplier, 100),
                !.optimized_qty =
                    Product(r.optimized_qty, price_multiplier, 100).q] :
      r \in rows }
\* revenue_captured and revenue_lost times price_multiplier, after optimise.
ScalePrice(rows, price_multiplier) ==
    { [r EXCEPT !.revenue_captured =
                    RoundHalfEvenMul(r.revenue_captured, price_multiplier, 100),
                !.revenue_lost =
                    RoundHalfEvenMul(r.revenue_lost, price_multiplier, 100)] :
      r \in rows }

\* A variant that takes the change relative to the scenario's revenue.
RevenueChangePctOfScenario(scenario_revenue, baseline_revenue) ==
    RoundHalfEvenMul(scenario_revenue - baseline_revenue, 1000,
                     Max(scenario_revenue, 20000))
\* round((scenario_revenue - baseline_revenue) / max(baseline_revenue, 1) * 100, 1)
RevenueChangePct(scenario_revenue, baseline_revenue) ==
    RoundHalfEvenMul(scenario_revenue - baseline_revenue, 1000,
                     Max(baseline_revenue, 20000))

\* The dict run_scenario returns, from the scenario plan as optimised and
\* price-scaled.
ScenarioResult(fc, production, catalog, scenario_df, scenario_capacity, demand_multiplier, price_multiplier, capacity_change_pct) ==
    LET baseline_demand == DemandOf(fc)
        baseline_revenue == BaselineRevenue(production, catalog)
        baseline_capacity == TOTAL_DAILY_CAPACITY * PRODUCTION_DAYS
        baseline_production ==
            SumOver(production, [r \in production |-> r.recommended_production_qty])
        scenario_revenue ==
            SumOver(scenario_df, [r \in scenario_df |-> r.revenue_captured])
        scenario_production ==
            SumOver(scenario_df, [r \in scenario_df |-> r.optimized_qty])
    IN  [baseline |->
            [total_demand |-> RoundHalfEven(baseline_demand, 100),
             total_production |-> baseline_production,
             total_revenue |-> RoundHalfEven(baseline_revenue, 20000),
             capacity |-> baseline_capacity,
             utilization_pct |->
                 RoundHalfEvenMul(baseline_production, 1000, baseline_capacity)],
         scenario |->
            [demand_multiplier |-> demand_multiplier,
             price_multiplier |-> price_multiplier,
             capacity_change_pct |-> capacity_change_pct,
             total_demand |->
                 RoundHalfEvenMul(baseline_demand, demand_multiplier, 10000),
             total_production |-> scenario_production,
             total_revenue |-> RoundHalfEven(scenario_revenue, 20000),
             capacity |-> scenario_capacity,
             utilization_pct |->
                 RoundHalfEvenMul(scenario_production, 1000,
                                  Max(scenario_capacity, 1))],
         delta |->
            [demand_change |->
                 RoundHalfEvenMul(baseline_demand, demand_multiplier - 100, 10000),
             production_change |-> scenario_production - baseline_production,
             revenue_change |->
                 RoundHalfEven(scenario_revenue - baseline_revenue, 20000),
             revenue_change_pct |->
                 RevenueChangePct(scenario_revenue, baseline_revenue)]]

-----------------------------------------------------------------------------
(* The inputs *)

OptimizerKeys ==
    { <<"d1", "st1", "s1", "c1">>, <<"d1", "st2", "s1", "c1">>,
      <<"d1", "st1", "s2", "c1">> }
PlannerKeys ==
    { <<"d1", "st1", "s1", "c1">>, <<"d2", "st1", "s1", "c1">>,
      <<"d1", "st2", "s1", "c1">>, <<"d1", "st1", "s2", "c2">> }

\* The forecasts over the row keys <<date, store, sku, cluster>> of demands:
\* each key has no row (-1) or a row with one of the demands (cents) allowed
\* for it; a forecast has one row at least.
ForecastsOver(demands) ==
    LET keys == DOMAIN demands
    IN  { { [date |-> k[1], store_id |-> k[2], city |-> StoreCity(k[2]),
             sku_id |-> k[3], power_cluster |-> k[4], predicted_demand |-> f[k]] :
            k \in { x \in keys : f[x] >= 0 } } :
          f \in { g \in [keys -> UNION { demands[k] : k \in keys }] :
                    \A k \in keys : g[k] \in demands[k] } } \ {{}}

\* Forecast rows for the optimizer.  The first series has a row of 0.40 or of
\* 1..MaxLots lots of 35,000.00; each other series has no row or one lot.
LargeDemands ==
    [k \in OptimizerKeys |->
        IF k[2] = "st1" /\ k[3] = "s1"
        THEN {40} \cup { j * 3500000 : j \in 1..MaxLots }
        ELSE {-1, 3500000}]
\* Forecast rows for the planner: none, 0, 0.40, 1.50.
SmallDemands == [k \in PlannerKeys |-> {-1, 0, 40, 150}]

\* A products.csv row for a SKU, or none.
Unlisted == [listed |-> FALSE, price_band |-> NoBand, base_cost |-> NoCost]
ProductChoices ==
    { Unlisted,
      [listed |-> TRUE, price_band |-> "low", base_cost |-> 0],
      [listed |-> TRUE, price_band |-> "premium", base_cost |-> 4] }
DefaultCatalog ==
    [s \in SKUs |-> IF s = "s1"
                    THEN [listed |-> TRUE, price_band |-> "mid", base_cost |-> 4]
                    ELSE [listed |-> TRUE, price_band |-> "premium", base_cost |-> 4]]

\* The snapshots the planner's forecasts can meet.
InventoryKeys == { <<"st1", "s1">>, <<"st2", "s1">> }
Inventories ==
    { [k \in Stores \X SKUs |-> IF k \in InventoryKeys THEN f[k] ELSE NoSnapshot] :
      f \in [InventoryKeys -> {NoSnapshot} \cup (0..MaxStock)] }
DefaultInventory == [k \in Stores \X SKUs |-> NoSnapshot]

\* The solver's choice among equally good vertices: which of two rows of
\* equal margin is filled first, and the bound a row of margin 0 is left at.
SolverTies ==
    { [order |-> "first", zero_margin |-> "lower"],
      [order |-> "last", zero_margin |-> "upper"] }

\* The parameters of the scenario requests.
DemandMultipliers == {100, 120}
PriceMultipliers == {100, 110}
CapacityChanges == {-150000, -100000, 0, 1, 15000}

NoResponse == [status |-> 0]

InitOutputs ==
    /\ production_plan = NoFile
    /\ allocation_plan = NoFile
    /\ stock_risk = NoFile
    /\ optimized_production_plan = NoFile
    /\ scenario_results = NoFile
    /\ planner_response = NoResponse
    /\ capacity_response = NoResponse
    /\ scenario_response = NoResponse

-----------------------------------------------------------------------------
(* The operations.  A response has status 200 when the operation returned   *)
(* and 500, with the exception as its detail, when it raised.               *)

Failure(detail) == [status |-> 500, detail |-> detail]

\* revenue_opportunity = shortage_units * base_cost * 1.5 per stock-risk row
\* (NaN for a SKU the catalog does not price).
calculate_revenue_opportunity(risk, catalog) ==
    { [store_id |-> r.store_id, city |-> r.city, sku_id |-> r.sku_id,
       power_cluster |-> r.power_cluster, shortage_units |-> r.shortage_units,
       revenue_opportunity |->
           IF catalog[r.sku_id].base_cost = NoCost THEN NotANumber
           ELSE Finite(r.shortage_units * catalog[r.sku_id].base_cost * 3)] :
      r \in risk }

\* The frame passed to generate_production_recommendations as the call leaves
\* it: sku_power_demand['recommended_production_qty'] = ... assigns the column
\* on the caller's frame, and the plan is a copy of three of its columns.
sku_power_demand_after(sku_power_demand) ==
    { [sku_id |-> g.sku_id, power_cluster |-> g.power_cluster,
       total_predicted_demand |-> g.total_predicted_demand,
       recommended_production_qty |-> RecommendedQty(g.total_predicted_demand, 100)] :
      g \in sku_power_demand }

\* ManufacturingRecommendationEngine.run_recommendation_pipeline: nothing is
\* saved when allocate_inventory raises.
RunRecommendationPipeline ==
    /\ \E sku_power_demand \in {SkuPowerDemand(forecast)} :
       \E plan \in {generate_production_recommendations(sku_power_demand)} :
          IF AllocationRaises(sku_power_demand)
          THEN /\ planner_response' = Failure("ValueError")
               /\ UNCHANGED <<production_plan, allocation_plan, stock_risk>>
          ELSE \E risk \in {detect_stockout_risks(StoreDemand(forecast), inventory)} :
               /\ production_plan' = File(plan)
               /\ allocation_plan' =
                      File(allocate_inventory(CitySkuDemand(forecast),
                                              sku_power_demand, plan))
               /\ stock_risk' = File(risk)
               /\ planner_response' =
                      [status |-> 200,
                       revenue_opportunity |->
                           calculate_revenue_opportunity(risk, products),
                       sku_power_demand |->
                           sku_power_demand_after(sku_power_demand)]
    /\ UNCHANGED <<forecast, products, inventory, optimized_production_plan,
                   scenario_results, capacity_response, scenario_response,
                   solver_ties>>
    /\ UNCHANGED other_vars

\* The columns CapacityOptimizer.save writes.
SavedColumns(rows) ==
    { [sku_id |-> r.sku_id, power_cluster |-> r.power_cluster,
       recommended_production_qty |-> r.recommended_production_qty,
       optimized_qty |-> r.optimized_qty,
       capacity_utilization_pct |-> r.capacity_utilization_pct,
       price_band |-> r.price_band, margin |-> r.margin,
       revenue_captured |-> r.revenue_captured,
       revenue_lost |-> r.revenue_lost] : r \in rows }

\* api.get_capacity: load_data, optimise at the default capacity, summary, save.
GetCapacity ==
    /\ IF ~production_plan.exists
       THEN /\ capacity_response' = Failure("FileNotFoundError")
            /\ UNCHANGED optimized_production_plan
       ELSE \E out \in {optimise(production_plan.rows, products, TOTAL_CAPACITY,
                                 solver_ties)} :
            IF out.raised
            THEN /\ capacity_response' = Failure("ValueError")
                 /\ UNCHANGED optimized_production_plan
            ELSE /\ capacity_response' =
                        [status |-> 200, capacity |-> out.capacity,
                         warning |-> out.warning, df |-> out.rows,
                         summary |-> summary(out.rows)]
                 /\ optimized_production_plan' = File(SavedColumns(out.rows))
    /\ UNCHANGED <<forecast, products, inventory, production_plan, allocation_plan,
                   stock_risk, scenario_results, planner_response,
                   scenario_response, solver_ties>>
    /\ UNCHANGED other_vars

\* A variant that saves the scenario's plan as production_plan.csv.
RunScenarioSavingPlan(demand_multiplier, price_multiplier, capacity_change_pct) ==
    /\ IF ~production_plan.exists
       THEN /\ scenario_response' = Failure("FileNotFoundError")
            /\ UNCHANGED <<scenario_results, production_plan>>
       ELSE \E scenario_capacity \in {ScenarioCapacity(capacity_change_pct)} :
            \E out \in {optimise(ScenarioPlan(forecast, demand_multiplier), products,
                                 scenario_capacity, solver_ties)} :
            IF out.raised
            THEN /\ scenario_response' = Failure("ValueError")
                 /\ UNCHANGED <<scenario_results, production_plan>>
            ELSE \E scenario_df \in {ScalePrice(out.rows, price_multiplier)} :
                 /\ scenario_response' =
                        [status |-> 200, capacity |-> out.capacity,
                         warning |-> out.warning, df |-> scenario_df,
                         baseline_revenue |->
                             BaselineRevenue(production_plan.rows, products),
                         scenario_revenue |->
                             SumOver(scenario_df,
                                     [r \in scenario_df |-> r.revenue_captured]),
                         result |->
                             ScenarioResult(forecast, production_plan.rows,
                                            products, scenario_df,
                                            scenario_capacity, demand_multiplier,
                                            price_multiplier, capacity_change_pct)]
                 /\ scenario_results' = File(scenario_df)
                 /\ production_plan' =
                        File(ScenarioPlan(forecast, demand_multiplier))
    /\ UNCHANGED <<forecast, products, inventory, allocation_plan,
                   stock_risk, optimized_production_plan, planner_response,
                   capacity_response, solver_ties>>
    /\ UNCHANGED other_vars

\* ScenarioSimulator.run_scenario behind api.run_scenario.
RunScenario(demand_multiplier, price_multiplier, capacity_change_pct) ==
    /\ IF ~production_plan.exists
       THEN /\ scenario_response' = Failure("FileNotFoundError")
            /\ UNCHANGED scenario_results
       ELSE \E scenario_capacity \in {ScenarioCapacity(capacity_change_pct)} :
            \E out \in {optimise(ScenarioPlan(forecast, demand_multiplier), products,
                                 scenario_capacity, solver_ties)} :
            IF out.raised
            THEN /\ scenario_response' = Failure("ValueError")
                 /\ UNCHANGED scenario_results
            ELSE \E scenario_df \in {ScalePrice(out.rows, price_multiplier)} :
                 /\ scenario_response' =
                        [status |-> 200, capacity |-> out.capacity,
                         warning |-> out.warning, df |-> scenario_df,
                         baseline_revenue |->
                             BaselineRevenue(production_plan.rows, products),
                         scenario_revenue |->
                             SumOver(scenario_df,
                                     [r \in scenario_df |-> r.revenue_captured]),
                         result |->
                             ScenarioResult(forecast, production_plan.rows,
                                            products, scenario_df,
                                            scenario_capacity, demand_multiplier,
                                            price_multiplier, capacity_change_pct)]
                 /\ scenario_results' = File(scenario_df)
    /\ UNCHANGED <<forecast, products, inventory, production_plan, allocation_plan,
                   stock_risk, optimized_production_plan, planner_response,
                   capacity_response, solver_ties>>
    /\ UNCHANGED other_vars

-----------------------------------------------------------------------------
(* The forecaster (train_forecast.py).  Quantities are whole units, the     *)
(* half-width 1.96 * res_std of a forecast interval is a whole number of    *)
(* units, an uncertainty ratio is an exact fraction [num, den], and          *)
(* confidence_score is in hundredths.                                        *)

\* recursive_forecast(self, df, feature_cols, days_ahead=7)
days_ahead == 7

\* A series has 1..MaxHistory daily observations.
MaxHistory == 14

\* The series keys, in the order of unique_combinations.
SeriesKeys == <<"st1_s1_c1", "st2_s1_c1">>

\* A series with no entry in residual_std_map.
NoStd == -1

\* create_features: lag_k of the last row of a series is the daily_qty k rows
\* before it, 0 (fillna) when there is none.
LagFeature(observed, k) ==
    IF Len(observed) > k THEN observed[Len(observed) - k] ELSE 0

\* series_data.iloc[-1] with its feature columns.
LatestRow(observed) ==
    [daily_qty |-> observed[Len(observed)],
     lag_1 |-> LagFeature(observed, 1),
     lag_7 |-> LagFeature(observed, 7),
     lag_14 |-> LagFeature(observed, 14)]

\* series_data.iloc[-k]['daily_qty']
FromEnd(series_data, k) == series_data[Len(series_data) - k + 1]

\* current_row[feature_cols]
FeatureVector(row) == [lag_1 |-> row.lag_1, lag_7 |-> row.lag_7, lag_14 |-> row.lag_14]

\* self.model.predict(feature_vector)[0]: the fitted regressor is some function
\* of the features; these are the ones the model ranges over.
Models == {"lag_1", "lag_7", "lag_14", "falling", "flat"}

predict(model, feature_vector) ==
    CASE model = "lag_1" -> feature_vector.lag_1
      [] model = "lag_7" -> feature_vector.lag_7
      [] model = "lag_14" -> feature_vector.lag_14
      [] model = "falling" -> feature_vector.lag_1 - 2
      [] OTHER -> 3

\* The lag features after the "update lag features for next iteration" block.
UpdatedLags(i, latest_row, series_data, predicted_demand) ==
    IF i = 0
    THEN [lag_1 |-> latest_row.daily_qty,
          lag_7 |-> IF Len(series_data) >= 7 THEN FromEnd(series_data, 7) ELSE 0,
          lag_14 |-> IF Len(series_data) >= 14 THEN FromEnd(series_data, 14) ELSE 0]
    ELSE [lag_1 |-> predicted_demand,
          lag_7 |-> IF Len(series_data) >= 6 THEN FromEnd(series_data, 6) ELSE 0,
          lag_14 |-> IF Len(series_data) >= 13 THEN FromEnd(series_data, 13) ELSE 0]

\* self.residual_std_map.get(series_key, self.global_residual_std), times 1.96
ResidualStd(residual_std_map, global_residual_std, series_key) ==
    IF residual_std_map[series_key] # NoStd THEN residual_std_map[series_key]
    ELSE global_residual_std

\* uncertainty_ratio = (upper - lower) / (predicted_demand + 1.0)
UncertaintyRatio(predicted_demand, res_std) ==
    [num |-> (predicted_demand + res_std) - Max(0, predicted_demand - res_std),
     den |-> predicted_demand + 1]

\* The row forecasts.append adds, with the feature vector that was fed to the
\* model to predict it.
ForecastRow(series_key, i, feature_vector, predicted_demand, res_std) ==
    [series_key |-> series_key, day |-> i + 1,
     predicted_demand |-> predicted_demand,
     lower_bound |-> Max(0, predicted_demand - res_std),
     upper_bound |-> predicted_demand + res_std,
     uncertainty_raw |-> UncertaintyRatio(predicted_demand, res_std),
     fed |-> feature_vector]

RatioLess(a, b) == a.num * b.den < b.num * a.den

UMin(rows) ==
    CHOOSE u \in {r.uncertainty_raw : r \in rows} :
        \A r \in rows : ~RatioLess(r.uncertainty_raw, u)

UMax(rows) ==
    CHOOSE u \in {r.uncertainty_raw : r \in rows} :
        \A r \in rows : ~RatioLess(u, r.uncertainty_raw)

\* A variant that puts a batch of equal uncertainties at 0.
UncertaintyNormZero(u, u_min, u_max) ==
    IF RatioLess(u_min, u_max)
    THEN [num |-> (u.num * u_min.den - u_min.num * u.den) * u_max.den,
          den |-> u.den * (u_max.num * u_min.den - u_min.num * u_max.den)]
    ELSE [num |-> 0, den |-> 1]

\* uncertainty_norm = (u - u_min) / (u_max - u_min) if u_max > u_min else 0.5
UncertaintyNorm(u, u_min, u_max) ==
    IF RatioLess(u_min, u_max)
    THEN [num |-> (u.num * u_min.den - u_min.num * u.den) * u_max.den,
          den |-> u.den * (u_max.num * u_min.den - u_min.num * u_max.den)]
    ELSE [num |-> 1, den |-> 2]

\* A variant that maps the normalized uncertainty onto 0 .. 0.95.
ConfidenceScoreFromZero(norm) ==
    RoundHalfEven(95 * norm.den - 95 * norm.num, norm.den)

\* confidence_score = (0.95 - uncertainty_norm * (0.95 - 0.30)).round(2)
ConfidenceScore(norm) ==
    RoundHalfEven(95 * norm.den - 65 * norm.num, norm.den)

\* The "Normalize Confidence Scores" block: forecast_df as returned.
NormalizeConfidence(forecasts) ==
    LET rows == {forecasts[n] : n \in 1..Len(forecasts)}
    IN  [n \in 1..Len(forecasts) |->
            [series_key |-> forecasts[n].series_key, day |-> forecasts[n].day,
             predicted_demand |-> forecasts[n].predicted_demand,
             lower_bound |-> forecasts[n].lower_bound,
             upper_bound |-> forecasts[n].upper_bound,
             confidence_score |->
                 ConfidenceScore(UncertaintyNorm(forecasts[n].uncertainty_raw,
                                                 UMin(rows), UMax(rows)))]]

\* The daily_qty history of the series: the first has any length up to
\* MaxHistory, the second has two observations or is not in the data.
Observed(n) == [j \in 1..n |-> j]

Histories ==
    { [k \in {SeriesKeys[1], SeriesKeys[2]} |->
          IF k = SeriesKeys[1] THEN Observed(n) ELSE tail] :
      n \in 1..MaxHistory, tail \in {<<>>, <<5, 6>>} }

\* residual_std_map of train_model, times 1.96: the first series has its own
\* value or none, the second has none.
ResidualStdMaps ==
    { [k \in {SeriesKeys[1], SeriesKeys[2]} |->
          IF k = SeriesKeys[1] THEN s ELSE NoStd] : s \in {NoStd, 0, 2} }

GlobalResidualStds == {0, 1}

NoRow == [daily_qty |-> 0, lag_1 |-> 0, lag_7 |-> 0, lag_14 |-> 0]

\* The forecaster before recursive_forecast is called, and at its first line.
IdleForecaster ==
    [pc |-> "idle", history |-> [k \in {SeriesKeys[1], SeriesKeys[2]} |-> <<>>],
     model |-> "flat",
     residual_std_map |-> [k \in {SeriesKeys[1], SeriesKeys[2]} |-> NoStd],
     global_residual_std |-> 0, combos |-> <<>>, i |-> 0,
     latest_row |-> NoRow, current_row |-> NoRow, series_data |-> <<>>,
     forecasts |-> <<>>, forecast_df |-> <<>>]

\* A forecaster whose loop over unique_combinations visits the first series
\* only.
NewForecasterFirstSeries(history, model, residual_std_map, global_residual_std) ==
    [IdleForecaster EXCEPT
        !.pc = "combo", !.history = history, !.model = model,
        !.residual_std_map = residual_std_map,
        !.global_residual_std = global_residual_std,
        !.combos = SelectSeq(SeriesKeys, LAMBDA k : k = SeriesKeys[1] /\ Len(history[k]) > 0)]

NewForecaster(history, model, residual_std_map, global_residual_std) ==
    [IdleForecaster EXCEPT
        !.pc = "combo", !.history = history, !.model = model,
        !.residual_std_map = residual_std_map,
        !.global_residual_std = global_residual_std,
        !.combos = SelectSeq(SeriesKeys, LAMBDA k : Len(history[k]) > 0)]

\* for _, combo in unique_combinations.iterrows(): the lines before the loop
\* over the forecast dates.
BeginSeries ==
    /\ forecaster.pc = "combo"
    /\ forecaster.combos # <<>>
    /\ \E observed \in {forecaster.history[Head(forecaster.combos)]} :
           forecaster' =
               [forecaster EXCEPT
                   !.pc = "day", !.i = 0, !.series_data = observed,
                   !.latest_row = LatestRow(observed),
                   !.current_row = LatestRow(observed)]
    /\ UNCHANGED <<planning_vars, predictor, csv_io, trainer>>

\* One iteration of the loop over the forecast dates.
ForecastDay ==
    /\ forecaster.pc = "day"
    /\ \E series_key \in {Head(forecaster.combos)} :
       \E feature_vector \in {FeatureVector(forecaster.current_row)} :
       \E predicted_demand \in {Max(0, predict(forecaster.model, feature_vector))} :
       \E lags \in {UpdatedLags(forecaster.i, forecaster.latest_row,
                                forecaster.series_data, predicted_demand)} :
       \E res_std \in {ResidualStd(forecaster.residual_std_map,
                                   forecaster.global_residual_std, series_key)} :
           forecaster' =
               [forecaster EXCEPT
                   !.current_row = [daily_qty |-> predicted_demand,
                                    lag_1 |-> lags.lag_1, lag_7 |-> lags.lag_7,
                                    lag_14 |-> lags.lag_14],
                   !.forecasts = Append(@, ForecastRow(series_key, forecaster.i,
                                                       feature_vector,
                                                       predicted_demand, res_std)),
                   !.series_data = Append(@, predicted_demand),
                   !.i = @ + 1,
                   !.pc = IF forecaster.i + 1 = days_ahead THEN "combo" ELSE "day",
                   !.combos = IF forecaster.i + 1 = days_ahead THEN Tail(@) ELSE @]
    /\ UNCHANGED <<planning_vars, predictor, csv_io, trainer>>

\* The lines after the loops: normalize and return forecast_df.
ReturnForecast ==
    /\ forecaster.pc = "combo"
    /\ forecaster.combos = <<>>
    /\ forecaster' =
           [forecaster EXCEPT
               !.pc = "done",
               !.forecast_df = NormalizeConfidence(forecaster.forecasts)]
    /\ UNCHANGED <<planning_vars, predictor, csv_io, trainer>>

-----------------------------------------------------------------------------
(* The cold-start predictor (unseen_sku_predictor.py) behind /api/predict.  *)
(* A similarity_distance is in thousandths, a demand in cents.              *)

\* The catalog has 1..MaxCatalog products.
MaxCatalog == 6

PRICE_BAND_ORDER(band) ==
    CASE band = "low" -> 0
      [] band = "mid" -> 1
      [] band = "high" -> 2
      [] band = "premium" -> 3

FEATURE_COLS == {"frame_type", "lens_type", "price_band"}

\* products.csv, row j: the columns the predictor reads.
CatalogProduct(j) ==
    [sku_id |-> j,
     frame_type |-> IF j % 2 = 1 THEN "aviator" ELSE "round",
     lens_type |-> IF (j \div 2) % 2 = 0 THEN "single" ELSE "progressive",
     price_band |-> CASE j % 4 = 1 -> "low"
                      [] j % 4 = 2 -> "mid"
                      [] j % 4 = 3 -> "high"
                      [] OTHER -> "premium"]

Catalog(n) == [j \in 1..n |-> CatalogProduct(j)]

\* OneHotEncoder(handle_unknown='ignore'): the columns of the new product
\* whose value is a category of the fitted catalog; the others encode as zeros.
KnownCols(catalog, new_sku) ==
    { col \in FEATURE_COLS : \E j \in 1..Len(catalog) : catalog[j][col] = new_sku[col] }

\* The columns on which a catalog product and the new product agree.
Matches(product, new_sku) ==
    Cardinality({ col \in FEATURE_COLS : product[col] = new_sku[col] })

\* metric='cosine': 1 - m / sqrt(3 * k) for a product that agrees on m of the
\* k known columns of the new product (each product has three ones), and 1
\* against the zero vector.
CosineDistance(m, k) ==
    CASE m = 0 -> 1000
      [] k = 1 -> 423
      [] k = 2 /\ m = 1 -> 592
      [] k = 2 /\ m = 2 -> 184
      [] k = 3 /\ m = 1 -> 667
      [] k = 3 /\ m = 2 -> 333
      [] OTHER -> 0

Distance(catalog, new_sku, j) ==
    CosineDistance(Matches(catalog[j], new_sku),
                   Cardinality(KnownCols(catalog, new_sku)))

\* Whether product a comes before product b in the neighbour order: nearer
\* first, equally near products in the order the implementation picks.
Nearer(catalog, new_sku, ties, a, b) ==
    LET da == Distance(catalog, new_sku, a)
        db == Distance(catalog, new_sku, b)
    IN  IF da # db THEN da < db
        ELSE IF ties = "first" THEN a < b ELSE a > b

RECURSIVE NearestOf(_, _, _, _, _)
\* The n nearest of the products left, nearest first.
NearestOf(catalog, new_sku, ties, left, n) ==
    IF n = 0 \/ left = {} THEN <<>>
    ELSE LET a == CHOOSE x \in left :
                      \A y \in left \ {x} : Nearer(catalog, new_sku, ties, x, y)
         IN  <<a>> \o NearestOf(catalog, new_sku, ties, left \ {a}, n - 1)

\* nn_model.kneighbors(new_encoded, n_neighbors=n): sklearn raises ValueError
\* when n exceeds the number of fitted samples.
kneighbors(catalog, new_sku, ties, n) ==
    IF n > Len(catalog) THEN [raised |-> TRUE, indices |-> <<>>]
    ELSE [raised |-> FALSE,
          indices |-> NearestOf(catalog, new_sku, ties, 1..Len(catalog), n)]

\* fit: k = min(5, len(self.products))
FittedNeighbors(catalog) == Min(5, Len(catalog))

\* A variant whose price-band adjustment is 10 % per step of the band.
AdjustedDemandTenPercent(rows, new_band_val, neighbor_bands) ==
    LET k == Len(neighbor_bands)
        band_sum == SumOver(1..k, [n \in 1..k |-> neighbor_bands[n]])
    IN  { [city |-> g[1], power_cluster |-> g[2],
           predicted_demand |->
               LET group == {r \in rows : r.city = g[1] /\ r.power_cluster = g[2]}
               IN  RoundHalfEven(
                       SumOver(group, [r \in group |-> r.predicted_demand])
                           * (10 * k + new_band_val * k - band_sum),
                       Cardinality(group) * 10 * k)] :
          g \in { <<r.city, r.power_cluster>> : r \in rows } }

\* groupby(['city', 'power_cluster'])['predicted_demand'].mean() times the
\* price-band adjustment 1 + 0.05 * (new band - mean neighbour band), rounded
\* to cents.
AdjustedDemand(rows, new_band_val, neighbor_bands) ==
    LET k == Len(neighbor_bands)
        band_sum == SumOver(1..k, [n \in 1..k |-> neighbor_bands[n]])
    IN  { [city |-> g[1], power_cluster |-> g[2],
           predicted_demand |->
               LET group == {r \in rows : r.city = g[1] /\ r.power_cluster = g[2]}
               IN  RoundHalfEven(
                       SumOver(group, [r \in group |-> r.predicted_demand])
                           * (20 * k + new_band_val * k - band_sum),
                       Cardinality(group) * 20 * k)] :
          g \in { <<r.city, r.power_cluster>> : r \in rows } }

\* UnseenSKUPredictor.predict_new_sku_demand on a fitted predictor.
predict_new_sku_demand(catalog, fc, new_sku, ties) ==
    LET indices == kneighbors(catalog, new_sku, ties, FittedNeighbors(catalog)).indices
        similar_skus == { catalog[indices[n]].sku_id : n \in 1..Len(indices) }
        similar_forecast == { r \in fc : r.sku_id \in similar_skus }
        neighbor_bands ==
            [n \in 1..Len(indices) |-> PRICE_BAND_ORDER(catalog[indices[n]].price_band)]
        new_band_val ==
            IF new_sku.price_band \in {"low", "mid", "high", "premium"}
            THEN PRICE_BAND_ORDER(new_sku.price_band) ELSE 1
    IN  AdjustedDemand(IF similar_forecast = {} THEN fc ELSE similar_forecast,
                       new_band_val, neighbor_bands)

\* UnseenSKUPredictor.get_similar_skus(new_sku_dict, n=5)
get_similar_skus(catalog, new_sku, ties) ==
    LET found == kneighbors(catalog, new_sku, ties, 5)
    IN  [raised |-> found.raised,
         rows |-> [n \in 1..Len(found.indices) |->
                      [sku_id |-> catalog[found.indices[n]].sku_id,
                       similarity_distance |->
                           Distance(catalog, new_sku, found.indices[n]),
                       frame_type |-> catalog[found.indices[n]].frame_type,
                       price_band |-> catalog[found.indices[n]].price_band]]]

\* demand_df.groupby('city')['predicted_demand'].sum(), largest first.
CityDemand(demand_df) ==
    LET total(c) == LET rows == {r \in demand_df : r.city = c}
                    IN  SumOver(rows, [r \in rows |-> r.predicted_demand])
        cities == { r.city : r \in demand_df }
    IN  IF cities = {} THEN <<>>
        ELSE IF cities = {"A", "B"}
        THEN IF total("B") > total("A")
             THEN << [city |-> "B", predicted_demand |-> total("B")],
                     [city |-> "A", predicted_demand |-> total("A")] >>
             ELSE << [city |-> "A", predicted_demand |-> total("A")],
                     [city |-> "B", predicted_demand |-> total("B")] >>
        ELSE LET c == CHOOSE x \in cities : TRUE
             IN  << [city |-> c, predicted_demand |-> total(c)] >>

\* The catalogs, the forecasts and the descriptions of a new product.
MissingCatalog == [exists |-> FALSE, rows |-> <<>>]
Catalogs == {MissingCatalog} \cup { File(Catalog(n)) : n \in 1..MaxCatalog }

ColdStartForecasts ==
    { NoFile,
      File({ [city |-> "A", power_cluster |-> "c1", sku_id |-> 1, predicted_demand |-> 150],
             [city |-> "B", power_cluster |-> "c1", sku_id |-> 1, predicted_demand |-> 40],
             [city |-> "A", power_cluster |-> "c1", sku_id |-> 2, predicted_demand |-> 250],
             [city |-> "A", power_cluster |-> "c2", sku_id |-> 5, predicted_demand |-> 325] }),
      File({ [city |-> "B", power_cluster |-> "c2", sku_id |-> 0, predicted_demand |-> 100] }) }

NewSkus ==
    [frame_type : {"aviator", "round", "wayfarer"},
     lens_type : {"single", "bifocal"},
     price_band : {"low", "premium", "luxury"}]

NeighbourTies == {"first", "last"}

\* No request has been made.
NoRequest == [frame_type |-> "", lens_type |-> "", price_band |-> ""]

IdlePredictor ==
    [products |-> MissingCatalog, forecast |-> NoFile, ties |-> "first",
     request |-> NoRequest, demand_df |-> {}, response |-> NoResponse]

\* api.predict_new_sku: load_data, fit, predict_new_sku_demand,
\* get_similar_skus; every exception becomes a 500.
PredictNewSku(new_sku) ==
    /\ IF ~predictor.products.exists \/ ~predictor.forecast.exists
       THEN predictor' = [predictor EXCEPT !.request = new_sku, !.demand_df = {},
                                           !.response = Failure("FileNotFoundError")]
       ELSE \E demand_df \in {predict_new_sku_demand(predictor.products.rows,
                                                     predictor.forecast.rows,
                                                     new_sku, predictor.ties)} :
            \E similar_df \in {get_similar_skus(predictor.products.rows, new_sku,
                                                predictor.ties)} :
            IF similar_df.raised
            THEN predictor' = [predictor EXCEPT !.request = new_sku,
                                                !.demand_df = demand_df,
                                                !.response = Failure("ValueError")]
            ELSE predictor' =
                     [predictor EXCEPT
                         !.request = new_sku,
                         !.demand_df = demand_df,
                         !.response =
                             [status |-> 200,
                              total_demand |->
                                  SumOver(demand_df,
                                          [r \in demand_df |-> r.predicted_demand]),
                              breakdown_by_city |-> CityDemand(demand_df),
                              similar_skus |-> similar_df.rows]]
    /\ UNCHANGED <<planning_vars, forecaster, csv_io, trainer>>

-----------------------------------------------------------------------------
(* A persisted table, one writer and one reader.  Every stage saves with    *)
(* DataFrame.to_csv(path, index=False), which opens the path for writing    *)
(* (truncating it) and writes the header and the rows through a buffer; a   *)
(* request reads the path with pd.read_csv.  Nothing orders the two, so the *)
(* reader runs between any two steps of the writer.                         *)

\* A table has 0..MaxRows rows, and is saved MaxSaves times at most.
MaxRows == 3
MaxSaves == 2

Header == 0

\* The rows of the table that save number v writes.
TableOf(v, n) == [j \in 1..n |-> 10 * v + j]

\* The lines to_csv writes for a table.
CsvLines(rows) == <<Header>> \o rows

IdleCsvIo ==
    [saves |-> 0, exists |-> FALSE, lines |-> <<>>, old |-> <<>>, new |-> <<>>,
     old_exists |-> FALSE, pending |-> <<>>, writing |-> FALSE,
     read |-> [status |-> "none", rows |-> <<>>, old |-> <<>>, new |-> <<>>,
               old_exists |-> FALSE, writing |-> FALSE]]

\* to_csv opens the path: the file exists and is empty.
OpenCsv ==
    /\ ~csv_io.writing
    /\ csv_io.saves < MaxSaves
    /\ \E n \in 0..MaxRows :
       \E rows \in {TableOf(csv_io.saves + 1, n)} :
           csv_io' = [csv_io EXCEPT
                         !.saves = @ + 1, !.writing = TRUE,
                         !.old = IF csv_io.exists THEN Tail(csv_io.lines) ELSE <<>>,
                         !.old_exists = csv_io.exists,
                         !.new = rows, !.pending = CsvLines(rows),
                         !.exists = TRUE, !.lines = <<>>]
    /\ UNCHANGED <<planning_vars, forecaster, predictor, trainer>>

\* The buffer is flushed: some of the pending lines reach the file.
FlushCsv ==
    /\ csv_io.writing
    /\ \E k \in 1..Len(csv_io.pending) :
           csv_io' = [csv_io EXCEPT
                         !.lines = @ \o SubSeq(csv_io.pending, 1, k),
                         !.pending = SubSeq(@, k + 1, Len(@))]
    /\ UNCHANGED <<planning_vars, forecaster, predictor, trainer>>

\* to_csv closes the file: the rest of the buffer reaches the file.
CloseCsv ==
    /\ csv_io.writing
    /\ csv_io' = [csv_io EXCEPT
                     !.lines = @ \o csv_io.pending, !.pending = <<>>,
                     !.writing = FALSE]
    /\ UNCHANGED <<planning_vars, forecaster, predictor, trainer>>

\* pd.read_csv(path) of a request: what the reader gets, with the tables the
\* writer was replacing and writing at that moment.
ReadCsv ==
    /\ csv_io' =
           [csv_io EXCEPT
               !.read =
                   [status |-> IF ~csv_io.exists THEN "FileNotFoundError"
                               ELSE IF csv_io.lines = <<>> THEN "EmptyDataError"
                               ELSE "read",
                    rows |-> IF csv_io.exists /\ csv_io.lines # <<>>
                             THEN Tail(csv_io.lines) ELSE <<>>,
                    old |-> csv_io.old, new |-> csv_io.new,
                    old_exists |-> csv_io.old_exists,
                    writing |-> csv_io.writing]]
    /\ UNCHANGED <<planning_vars, forecaster, predictor, trainer>>

-----------------------------------------------------------------------------
(* The training steps of train_forecast.py: create_features,                *)
(* prepare_train_data and the residual statistics of train_model.  A date   *)
(* is a day number, a rolling mean is an exact fraction [num, den], and a   *)
(* standard deviation is represented by its square, an exact fraction.      *)

\* The first series has 1..MaxObservations daily observations.
MaxObservations == 17

\* A cell pandas leaves NaN.
NoValue == -1

\* The rank of a series_id in sort order.
SeriesRank(series_id) == IF series_id = SeriesKeys[1] THEN 1 ELSE 2

RECURSIVE SortedRows(_)
\* df.sort_values(['series_id', 'date']).reset_index(drop=True)
SortedRows(rows) ==
    IF rows = {} THEN <<>>
    ELSE LET first == CHOOSE r \in rows :
                          \A x \in rows \ {r} :
                              \/ SeriesRank(r.series_id) < SeriesRank(x.series_id)
                              \/ /\ r.series_id = x.series_id
                                 /\ r.date < x.date
         IN  <<first>> \o SortedRows(rows \ {first})

\* df.groupby('series_id')['daily_qty'].shift(k) at row t of the sorted frame:
\* the daily_qty k rows above when that row is of the same series, else NaN.
GroupShift(rows, t, k) ==
    IF t - k >= 1 /\ rows[t - k].series_id = rows[t].series_id
    THEN rows[t - k].daily_qty
    ELSE NoValue

\* The lag column after fillna(0).
LagColumn(rows, t, k) ==
    IF GroupShift(rows, t, k) = NoValue THEN 0 ELSE GroupShift(rows, t, k)

\* groupby('series_id')['daily_qty'].shift(1).rolling(window, min_periods=1)
\* .mean() at row t, after fillna(0): the rolling window runs over the rows
\* of the whole shifted column, and the mean skips its NaN cells.
RollingMean(rows, t, window) ==
    LET cells == { u \in Max(1, t - window + 1)..t : GroupShift(rows, u, 1) # NoValue }
    IN  IF cells = {} THEN [num |-> 0, den |-> 1]
        ELSE [num |-> SumOver(cells, [u \in cells |-> GroupShift(rows, u, 1)]),
              den |-> Cardinality(cells)]

\* DemandForecaster.create_features: the sorted frame with its lag and rolling
\* columns.
create_features(demand_data) ==
    LET rows == SortedRows(demand_data)
    IN  [t \in 1..Len(rows) |->
            [series_id |-> rows[t].series_id, date |-> rows[t].date,
             daily_qty |-> rows[t].daily_qty,
             lag_1 |-> LagColumn(rows, t, 1),
             lag_7 |-> LagColumn(rows, t, 7),
             lag_14 |-> LagColumn(rows, t, 14),
             rolling_mean_7 |-> RollingMean(rows, t, 7),
             rolling_mean_14 |-> RollingMean(rows, t, 14)]]

\* max_date and val_start_date = max_date - timedelta(days=14)
MaxDate(df) == CHOOSE d \in {df[t].date : t \in 1..Len(df)} :
                   \A t \in 1..Len(df) : df[t].date <= d

ValStartDate(df) == MaxDate(df) - 14

\* DemandForecaster.prepare_train_data: train_df and val_df.
prepare_train_data(df) ==
    [train_df |-> { df[t] : t \in { u \in 1..Len(df) : df[u].date < ValStartDate(df) } },
     val_df |-> { df[t] : t \in { u \in 1..Len(df) : df[u].date >= ValStartDate(df) } }]

\* y_val - y_pred of a validation row.
Residual(model, row) == row.daily_qty - predict(model, FeatureVector(row))

\* The sum of the residuals of a set of validation rows, and of their squares.
ResidualSum(model, rows) == SumOver(rows, [r \in rows |-> Residual(model, r)])

ResidualSquares(model, rows) ==
    SumOver(rows, [r \in rows |-> Residual(model, r) * Residual(model, r)])

\* rmse = sqrt(mean_squared_error(y_val, y_pred)), squared.
RmseSquared(model, val_df) ==
    [num |-> ResidualSquares(model, val_df), den |-> Cardinality(val_df)]

\* groupby('series_id')['residual'].std() of a series of the validation set,
\* squared: the sample variance, NaN for a single row, which fillna replaces
\* by rmse.
SeriesStdSquared(model, val_df, series_id) ==
    LET mine == { r \in val_df : r.series_id = series_id }
        n == Cardinality(mine)
    IN  IF n = 1 THEN RmseSquared(model, val_df)
        ELSE [num |-> n * ResidualSquares(model, mine)
                          - ResidualSum(model, mine) * ResidualSum(model, mine),
              den |-> n * (n - 1)]

\* global_residual_std = np.std(y_val - y_pred), squared: the population
\* variance of all validation residuals.
GlobalStdSquared(model, val_df) ==
    LET n == Cardinality(val_df)
    IN  [num |-> n * ResidualSquares(model, val_df)
                     - ResidualSum(model, val_df) * ResidualSum(model, val_df),
         den |-> n * n]

\* A series without an entry in residual_std_map.
NoSigma == [num |-> NoValue, den |-> 1]

\* residual_std_map = series_std.to_dict(): an entry per series of val_df.
ResidualStdMap(model, val_df) ==
    [k \in {SeriesKeys[1], SeriesKeys[2]} |->
        IF \E r \in val_df : r.series_id = k
        THEN SeriesStdSquared(model, val_df, k) ELSE NoSigma]

\* self.residual_std_map.get(series_key, self.global_residual_std), squared.
SigmaSquared(residual_std_map, global_residual_std, series_key) ==
    IF residual_std_map[series_key] # NoSigma THEN residual_std_map[series_key]
    ELSE global_residual_std

\* The aggregated demand: the first series on the days 1..n with the
\* quantities 1..n, and a second series that is absent, or has two early
\* days, or two early days and the last day of the first.
DemandRows(series_id, dates, base) ==
    { [series_id |-> series_id, date |-> d, daily_qty |-> base + d] : d \in dates }

SecondSeries(n) ==
    { {}, DemandRows(SeriesKeys[2], 1..2, 20) }
        \cup { DemandRows(SeriesKeys[2], {1, 2, m}, 20) : m \in {n} \ (1..2) }

DemandData ==
    UNION { { DemandRows(SeriesKeys[1], 1..n, 0) \cup second :
              second \in SecondSeries(n) } : n \in 1..MaxObservations }

NoChange == [series_id |-> "", date |-> 0]

IdleTrainer ==
    [pc |-> "idle", demand_data |-> {}, model |-> "flat", df |-> <<>>,
     before |-> <<>>, changed |-> NoChange, train_df |-> {}, val_df |-> {},
     residual_std_map |-> [k \in {SeriesKeys[1], SeriesKeys[2]} |-> NoSigma],
     global_residual_std |-> NoSigma]

NewTrainer(demand_data, model) ==
    [IdleTrainer EXCEPT !.pc = "aggregated", !.demand_data = demand_data,
                        !.model = model]

\* df, feature_cols = self.create_features(demand_data); the frame of the
\* previous call is kept for comparison.
CreateFeatures ==
    /\ trainer.pc = "aggregated"
    /\ trainer' = [trainer EXCEPT !.pc = "featured",
                                  !.before = trainer.df,
                                  !.df = create_features(trainer.demand_data)]
    /\ UNCHANGED <<planning_vars, forecaster, predictor, csv_io>>

\* orders.csv is refreshed with one daily quantity changed, and the pipeline
\* runs again.
ChangeObservation ==
    /\ trainer.pc = "featured"
    /\ trainer.changed = NoChange
    /\ \E r \in trainer.demand_data :
           trainer' = [trainer EXCEPT
                          !.pc = "aggregated",
                          !.changed = [series_id |-> r.series_id, date |-> r.date],
                          !.demand_data =
                              (@ \ {r}) \cup {[r EXCEPT !.daily_qty = @ + 100]}]
    /\ UNCHANGED <<planning_vars, forecaster, predictor, csv_io>>

\* train_df, val_df = self.prepare_train_data(df, feature_cols)
PrepareTrainData ==
    /\ trainer.pc = "featured"
    /\ \E split \in {prepare_train_data(trainer.df)} :
           trainer' = [trainer EXCEPT !.pc = "split",
                                      !.train_df = split.train_df,
                                      !.val_df = split.val_df]
    /\ UNCHANGED <<planning_vars, forecaster, predictor, csv_io>>

\* self.train_model(train_df, val_df, feature_cols): fitting needs training
\* rows; the residual statistics are those of the validation set.
TrainModel ==
    /\ trainer.pc = "split"
    /\ IF trainer.train_df = {}
       THEN trainer' = [trainer EXCEPT !.pc = "raised"]
       ELSE trainer' =
                [trainer EXCEPT
                    !.pc = "trained",
                    !.residual_std_map = ResidualStdMap(trainer.model, trainer.val_df),
                    !.global_residual_std = GlobalStdSquared(trainer.model,
                                                             trainer.val_df)]
    /\ UNCHANGED <<planning_vars, forecaster, predictor, csv_io>>

-----------------------------------------------------------------------------
(* Inputs of optimise with a third product: a production_plan.csv written   *)
(* by an earlier run of the pipeline, and a products.csv edited since.      *)

MarginSKUs == {"s1", "s2", "s3"}

\* A products.csv row: none, or one with a band and a cost, or one with an
\* empty price_band cell, or one with an empty base_cost cell.
MarginChoices ==
    { Unlisted,
      [listed |-> TRUE, price_band |-> "low", base_cost |-> 2],
      [listed |-> TRUE, price_band |-> "premium", base_cost |-> 4],
      [listed |-> TRUE, price_band |-> NoBand, base_cost |-> 6],
      [listed |-> TRUE, price_band |-> "high", base_cost |-> NoCost] }

\* production_plan.csv: one row of 10 units for each SKU of a non-empty set.
MarginPlans ==
    { { [sku_id |-> sku, power_cluster |-> "c1", recommended_production_qty |-> 10] :
        sku \in S } : S \in (SUBSET MarginSKUs) \ {{}} }

-----------------------------------------------------------------------------
(* The specifications: the planning services with the optimizer's inputs   *)
(* (Spec) and with the planner's (SpecPlanner), a run of the forecaster     *)
(* (SpecForecast), the cold-start requests (SpecColdStart), a table being   *)
(* saved and read (SpecCsv) and the training steps (SpecTraining).          *)

OthersIdle ==
    /\ forecaster = IdleForecaster
    /\ predictor = IdlePredictor
    /\ csv_io = IdleCsvIo
    /\ trainer = IdleTrainer

PlanningIdle ==
    /\ forecast \in ForecastsOver([k \in PlannerKeys |-> {40}])
    /\ products = DefaultCatalog
    /\ inventory = DefaultInventory
    /\ solver_ties = [order |-> "first", zero_margin |-> "lower"]
    /\ InitOutputs

Init ==
    /\ forecast \in ForecastsOver(LargeDemands)
    /\ products \in [SKUs -> ProductChoices]
    /\ inventory = DefaultInventory
    /\ solver_ties \in SolverTies
    /\ InitOutputs
    /\ OthersIdle

InitPlanner ==
    /\ forecast \in ForecastsOver(SmallDemands)
    /\ products = DefaultCatalog
    /\ inventory \in Inventories
    /\ solver_ties = [order |-> "first", zero_margin |-> "lower"]
    /\ InitOutputs
    /\ OthersIdle

InitForecast ==
    /\ PlanningIdle
    /\ forecaster \in { NewForecaster(h, m, s, g) :
                            h \in Histories, m \in Models,
                            s \in ResidualStdMaps, g \in GlobalResidualStds }
    /\ predictor = IdlePredictor
    /\ csv_io = IdleCsvIo
    /\ trainer = IdleTrainer

InitColdStart ==
    /\ PlanningIdle
    /\ forecaster = IdleForecaster
    /\ predictor \in { [IdlePredictor EXCEPT !.products = c, !.forecast = f,
                                              !.ties = t] :
                           c \in Catalogs, f \in ColdStartForecasts,
                           t \in NeighbourTies }
    /\ csv_io = IdleCsvIo
    /\ trainer = IdleTrainer

InitCsv ==
    /\ PlanningIdle
    /\ forecaster = IdleForecaster
    /\ predictor = IdlePredictor
    /\ csv_io = IdleCsvIo
    /\ trainer = IdleTrainer

InitMargins ==
    /\ forecast \in ForecastsOver([k \in PlannerKeys |-> {40}])
    /\ products \in [MarginSKUs -> MarginChoices]
    /\ inventory = DefaultInventory
    /\ solver_ties \in SolverTies
    /\ production_plan \in { File(plan) : plan \in MarginPlans }
    /\ allocation_plan = NoFile
    /\ stock_risk = NoFile
    /\ optimized_production_plan = NoFile
    /\ scenario_results = NoFile
    /\ planner_response = NoResponse
    /\ capacity_response = NoResponse
    /\ scenario_response = NoResponse
    /\ OthersIdle

NextMargins == GetCapacity

SpecMargins == InitMargins /\ [][NextMargins]_vars

Next ==
    \/ RunRecommendationPipeline
    \/ GetCapacity
    \/ \E dm \in DemandMultipliers, pm \in PriceMultipliers, pct \in CapacityChanges :
           RunScenario(dm, pm, pct)

NextPlanner ==
    \/ RunRecommendationPipeline
    \/ GetCapacity

InitTraining ==
    /\ PlanningIdle
    /\ forecaster = IdleForecaster
    /\ predictor = IdlePredictor
    /\ csv_io = IdleCsvIo
    /\ trainer \in { NewTrainer(d, m) : d \in DemandData, m \in Models }

NextForecast ==
    \/ BeginSeries
    \/ ForecastDay
    \/ ReturnForecast

NextColdStart == \E new_sku \in NewSkus : PredictNewSku(new_sku)

NextCsv ==
    \/ OpenCsv
    \/ FlushCsv
    \/ CloseCsv
    \/ ReadCsv

Spec == Init /\ [][Next]_vars

SpecPlanner == InitPlanner /\ [][NextPlanner]_vars

SpecForecast == InitForecast /\ [][NextForecast]_vars

SpecColdStart == InitColdStart /\ [][NextColdStart]_vars

SpecCsv == InitCsv /\ [][NextCsv]_vars

NextTraining ==
    \/ CreateFeatures
    \/ ChangeObservation
    \/ PrepareTrainData
    \/ TrainModel

SpecTraining == InitTraining /\ [][NextTraining]_vars

-----------------------------------------------------------------------------
(* The claims.  Quantities are read off the responses and the tables, and   *)
(* each expected value is computed here from the inputs.                    *)

\* C1, as the specification states it: every plan optimise returns, to
\* get-capacity-plan or to a scenario run at any derived capacity, has
\* 0 <= optimized_qty <= recommended_production_qty in every row and a total
\* optimized_qty of at most the capacity, the solver-failure path included.
C1_OptimizedWithinCapacity ==
    LET Within(resp) ==
            resp.status = 200 =>
                /\ \A r \in resp.df :
                       /\ 0 <= r.optimized_qty
                       /\ r.optimized_qty <= r.recommended_production_qty
                /\ SumOver(resp.df, [r \in resp.df |-> r.optimized_qty])
                       <= resp.capacity
    IN  Within(capacity_response) /\ Within(scenario_response)

\* C2, as the specification states it: optimise returns for every catalog,
\* and when the capacity is at least the total recommended quantity, every
\* row has optimized_qty = recommended_production_qty and revenue_lost = 0,
\* rows of margin 0 and rows without a base_cost included.
C2_AmpleCapacityKeepsPlan ==
    LET Kept(resp) ==
            /\ resp.status = 500 => resp.detail = "FileNotFoundError"
            /\ (/\ resp.status = 200
                /\ resp.capacity >=
                       SumOver(resp.df,
                               [r \in resp.df |-> r.recommended_production_qty]))
               => \A r \in resp.df :
                      /\ r.optimized_qty = r.recommended_production_qty
                      /\ r.revenue_lost = 0
    IN  Kept(capacity_response) /\ Kept(scenario_response)

\* C3, as the specification states it: the scenario run with
\* demand_multiplier 1.0, price_multiplier 1.0 and capacity_change_pct 0.0
\* has scenario total_demand, total_production, total_revenue, capacity and
\* utilization_pct equal to the baseline's, and every delta 0.
C3_IdentityScenarioReproducesBaseline ==
    (/\ scenario_response.status = 200
     /\ scenario_response.result.scenario.demand_multiplier = 100
     /\ scenario_response.result.scenario.price_multiplier = 100
     /\ scenario_response.result.scenario.capacity_change_pct = 0)
    => LET b == scenario_response.result.baseline
           s == scenario_response.result.scenario
           d == scenario_response.result.delta
       IN  /\ s.total_demand = b.total_demand
           /\ s.total_production = b.total_production
           /\ s.total_revenue = b.total_revenue
           /\ s.capacity = b.capacity
           /\ s.utilization_pct = b.utilization_pct
           /\ d.demand_change = 0
           /\ d.production_change = 0
           /\ d.revenue_change = 0
           /\ d.revenue_change_pct = 0

\* C4: a solver failure is not fatal.  A run-scenario request fails only for
\* a missing table or an objective that holds a NaN, never for the solver's
\* failure; a plan returned for an infeasible (negative) capacity carries the
\* warning; and a plan with the warning has one row per (product, segment) of
\* the forecast, each with optimized_qty = recommended_production_qty, nothing
\* cut, and the revenue and utilization columns filled in.
C4_SolverFailureFallsBack ==
    /\ scenario_response.status = 500 =>
           \/ scenario_response.detail = "FileNotFoundError"
           \/ /\ scenario_response.detail = "ValueError"
              /\ \A k \in SKUs :
                     (\E f \in forecast : f.sku_id = k) => ~products[k].listed
    /\ scenario_response.status = 200 =>
           /\ scenario_response.capacity < 0 => scenario_response.warning
           /\ scenario_response.warning =>
                  LET df == scenario_response.df
                      pm == scenario_response.result.scenario.price_multiplier
                      total == SumOver(df, [r \in df |-> r.recommended_production_qty])
                  IN  /\ scenario_response.capacity < 0
                      /\ { <<r.sku_id, r.power_cluster>> : r \in df }
                             = { <<f.sku_id, f.power_cluster>> : f \in forecast }
                      /\ Cardinality(df)
                             = Cardinality({ <<f.sku_id, f.power_cluster>> :
                                             f \in forecast })
                      /\ \A r \in df :
                             /\ r.optimized_qty = r.recommended_production_qty
                             /\ r.revenue_lost = 0
                             /\ r.revenue_captured
                                    = r.recommended_production_qty * r.base_cost
                                        * 3 * pm
                             /\ r.capacity_utilization_pct
                                    = Finite(RoundHalfEvenMul(
                                                 -total, 1000,
                                                 -scenario_response.capacity))

\* C4's case: a scenario whose capacity is negative returned a plan with the
\* warning, with something to produce.
C4_Witness ==
    /\ scenario_response.status = 200
    /\ scenario_response.warning
    /\ \E r \in scenario_response.df :
           r.recommended_production_qty > 0 /\ r.revenue_captured > 0

\* C5: two successive scenario runs on the same tables with the same
\* demand_multiplier and capacity_change_pct, whatever their price
\* multipliers p and p', return the same rows with the same optimized_qty, the
\* same total_production, and revenues in the ratio p'/p:
\* revenue' * p = revenue * p'.
C5_PriceDoesNotChangeProduction ==
    [][ (/\ scenario_response.status = 200
         /\ scenario_response'.status = 200
         /\ scenario_response'.result.scenario.demand_multiplier
                = scenario_response.result.scenario.demand_multiplier
         /\ scenario_response'.result.scenario.capacity_change_pct
                = scenario_response.result.scenario.capacity_change_pct)
        => LET df == scenario_response.df
               p == scenario_response.result.scenario.price_multiplier
               df2 == scenario_response'.df
               p2 == scenario_response'.result.scenario.price_multiplier
           IN  /\ scenario_response'.result.scenario.total_production
                      = scenario_response.result.scenario.total_production
               /\ { <<r.sku_id, r.power_cluster>> : r \in df2 }
                      = { <<r.sku_id, r.power_cluster>> : r \in df }
               /\ \A r \in df, r2 \in df2 :
                      (r2.sku_id = r.sku_id /\ r2.power_cluster = r.power_cluster)
                      => /\ r2.optimized_qty = r.optimized_qty
                         /\ Product(r2.revenue_captured, p, 100)
                                = Product(r.revenue_captured, p2, 100)
                         /\ Product(r2.revenue_lost, p, 100)
                                = Product(r.revenue_lost, p2, 100) ]_vars

\* C5's case: a scenario run at a price multiplier other than 1.0 whose plan
\* was cut, so that both revenue columns are positive.
C5_Witness ==
    /\ scenario_response.status = 200
    /\ scenario_response.result.scenario.price_multiplier # 100
    /\ \E r \in scenario_response.df :
           /\ 0 < r.optimized_qty
           /\ r.optimized_qty < r.recommended_production_qty
           /\ r.revenue_captured > 0
           /\ r.revenue_lost > 0

\* C6, as the specification states it: the capacity of every scenario run is
\* round(baseline_capacity * (1 + capacity_change_pct / 100)), the nearest
\* integer.
C6_ScenarioCapacityIsRounded ==
    scenario_response.status = 200 =>
        scenario_response.result.scenario.capacity
            = RoundHalfEvenMul(
                  TOTAL_DAILY_CAPACITY * PRODUCTION_DAYS,
                  100000 + scenario_response.result.scenario.capacity_change_pct,
                  100000)

\* C7 (amended): in every scenario result, delta.revenue_change_pct is
\* (scenario_revenue - baseline_revenue) / max(baseline_revenue, 1) * 100
\* rounded to 1 decimal, baseline_revenue being the revenue of the persisted
\* plan and scenario_revenue the sum of the price-scaled revenue_captured.
C7_RevenueChangePct ==
    scenario_response.status = 200 =>
        LET df == scenario_response.df
            s == SumOver(df, [r \in df |-> r.revenue_captured])
            b == BaselineRevenue(production_plan.rows, products)
        IN  /\ scenario_response.scenario_revenue = s
            /\ scenario_response.baseline_revenue = b
            /\ scenario_response.result.delta.revenue_change_pct
                   = RoundHalfEvenMul(s - b, 1000, IF b >= 20000 THEN b ELSE 20000)

\* C7's case: the baseline plan earns nothing and the scenario plan does, so
\* the denominator is the 1 the code substitutes.
C7_Witness ==
    /\ scenario_response.status = 200
    /\ scenario_response.baseline_revenue = 0
    /\ scenario_response.scenario_revenue > 0
    /\ scenario_response.result.delta.revenue_change_pct > 0

\* C7, as the specification states it: delta.revenue_change_pct is
\* (scenario_revenue - baseline_revenue) / baseline_revenue * 100 rounded to
\* 1 decimal; the quotient has no value when baseline_revenue is 0.
C7_DividesByBaselineRevenue ==
    scenario_response.status = 200 =>
        /\ scenario_response.baseline_revenue # 0
        /\ scenario_response.result.delta.revenue_change_pct
               = RoundHalfEvenMul(scenario_response.scenario_revenue
                                      - scenario_response.baseline_revenue,
                                  1000, scenario_response.baseline_revenue)

\* C8 (amended): every row of the stock-risk table has shortage_units equal
\* to max(0, store demand - stock level), the stock level of a location
\* without a snapshot being 0, and risk_probability equal to
\* shortage / (demand + 0.001), at most 1, rounded to 2 decimals.
C8_ShortageAndRoundedRisk ==
    \A r \in stock_risk.rows :
        LET snapshot == inventory[<<r.store_id, r.sku_id>>]
            stock == IF snapshot = NoSnapshot THEN 0 ELSE snapshot
            mine == { f \in forecast : /\ f.store_id = r.store_id
                                       /\ f.sku_id = r.sku_id
                                       /\ f.power_cluster = r.power_cluster }
            demand == SumOver(mine, [f \in mine |-> f.predicted_demand])
            shortage == IF demand > stock * 100 THEN demand - stock * 100 ELSE 0
            n == 10 * shortage
            d == 10 * demand + 1
        IN  /\ r.store_predicted_demand = demand
            /\ r.stock_level = stock
            /\ r.shortage_units = shortage
            /\ r.risk_probability = (IF n >= d THEN 100
                                     ELSE RoundHalfEvenMul(n, 100, d))

\* C8's case: a row of a location that holds stock, short of its demand, and
\* a row of a location without a snapshot.
C8_Witness ==
    /\ \E r \in stock_risk.rows :
           /\ inventory[<<r.store_id, r.sku_id>>] # NoSnapshot
           /\ r.stock_level > 0
           /\ r.risk_probability < 100
    /\ \E r \in stock_risk.rows : inventory[<<r.store_id, r.sku_id>>] = NoSnapshot

\* C8, as the specification states it: risk_probability is exactly
\* shortage / (demand + epsilon) clipped to [0, 1], and shortage_units exactly
\* max(0, demand - stock).
C8_ExactRisk ==
    \A r \in stock_risk.rows :
        LET n == 10 * r.shortage_units
            d == 10 * r.store_predicted_demand + 1
        IN  /\ r.shortage_units
                   = (IF r.store_predicted_demand > r.stock_level * 100
                      THEN r.store_predicted_demand - r.stock_level * 100 ELSE 0)
            /\ IF n >= d THEN r.risk_probability = 100
               ELSE r.risk_probability * d = 100 * n

\* C9: once the planner has saved its tables, the stock-risk table has a row
\* for a (location, product, segment) of the forecast exactly when the
\* location's demand exceeds its stock level, one row at most, no row for
\* anything else, and every row has shortage_units > 0 and a
\* risk_probability within [0, 1].
C9_RiskRowIffShort ==
    stock_risk.exists =>
        /\ \A g \in StoreDemand(forecast) :
               LET snapshot == inventory[<<g.store_id, g.sku_id>>]
                   stock == IF snapshot = NoSnapshot THEN 0 ELSE snapshot
                   rows == { r \in stock_risk.rows :
                                 /\ r.store_id = g.store_id
                                 /\ r.sku_id = g.sku_id
                                 /\ r.power_cluster = g.power_cluster }
               IN  /\ (rows # {}) <=> (g.store_predicted_demand - stock * 100 > 0)
                   /\ Cardinality(rows) <= 1
        /\ \A r \in stock_risk.rows :
               /\ \E f \in forecast : /\ f.store_id = r.store_id
                                      /\ f.sku_id = r.sku_id
                                      /\ f.power_cluster = r.power_cluster
               /\ r.shortage_units > 0
               /\ 0 <= r.risk_probability
               /\ r.risk_probability <= 100

\* C9's case: the planner saved a stock-risk table that has a row for one
\* location and none for another whose stock covers its demand.
C9_Witness ==
    /\ stock_risk.exists
    /\ stock_risk.rows # {}
    /\ \E f \in forecast :
           /\ f.predicted_demand > 0
           /\ \A r \in stock_risk.rows :
                  ~(/\ r.store_id = f.store_id
                    /\ r.sku_id = f.sku_id
                    /\ r.power_cluster = f.power_cluster)

\* C10: the production plan has exactly one row for every (product, segment)
\* of the forecast and no other row, its recommended_production_qty being
\* round(1.15 * the sum of predicted_demand over the group's rows); the plan a
\* scenario run optimises has the same rows with
\* round(1.15 * demand_multiplier * that sum).
C10_RecommendedQty ==
    LET groups == { <<f.sku_id, f.power_cluster>> : f \in forecast }
        total(g) ==
            LET mine == { f \in forecast : f.sku_id = g[1] /\ f.power_cluster = g[2] }
            IN  SumOver(mine, [f \in mine |-> f.predicted_demand])
        Holds(rows, scale) ==
            /\ { <<r.sku_id, r.power_cluster>> : r \in rows } = groups
            /\ Cardinality(rows) = Cardinality(groups)
            /\ \A r \in rows :
                   r.recommended_production_qty
                       = RoundHalfEvenMul(total(<<r.sku_id, r.power_cluster>>),
                                          115 * scale, 1000000)
    IN  /\ production_plan.exists => Holds(production_plan.rows, 100)
        /\ scenario_response.status = 200 =>
               Holds(scenario_response.df,
                     scenario_response.result.scenario.demand_multiplier)

\* C10's case: a plan with something to produce, and a scenario run on a
\* scaled forecast whose rounding differs from the plan's.
C10_Witness ==
    /\ \E r \in production_plan.rows : r.recommended_production_qty > 0
    /\ scenario_response.status = 200
    /\ scenario_response.result.scenario.demand_multiplier # 100
    /\ \E r \in scenario_response.df, p \in production_plan.rows :
           /\ r.sku_id = p.sku_id /\ r.power_cluster = p.power_cluster
           /\ r.recommended_production_qty = 1
           /\ p.recommended_production_qty = 0

-----------------------------------------------------------------------------
(* The forecaster's claims, under SpecForecast. *)

\* C11: every row of the forecast recursive_forecast returns has a
\* confidence_score between 0.30 and 0.95, whatever the predictions and the
\* residual standard deviations of the batch.
C11_ConfidenceWithinRange ==
    forecaster.pc = "done" =>
        \A n \in 1..Len(forecaster.forecast_df) :
            /\ forecaster.forecast_df[n].confidence_score >= 30
            /\ forecaster.forecast_df[n].confidence_score <= 95

\* C11's case: a returned forecast whose rows differ in uncertainty, with a
\* row at each end of the range and one strictly inside.
C11_Witness ==
    /\ forecaster.pc = "done"
    /\ \E a, b, c \in 1..Len(forecaster.forecast_df) :
           /\ forecaster.forecast_df[a].confidence_score = 30
           /\ forecaster.forecast_df[b].confidence_score = 95
           /\ forecaster.forecast_df[c].confidence_score \in 31..94

\* Every row of the batch has the same uncertainty_ratio (u_max == u_min).
EqualUncertainty ==
    \A a, b \in 1..Len(forecaster.forecasts) :
        ~RatioLess(forecaster.forecasts[a].uncertainty_raw,
                   forecaster.forecasts[b].uncertainty_raw)

\* C12: when every row of the batch has the same uncertainty_ratio, the
\* normalized uncertainty is 0.5 and every row stores 0.95 - 0.5 * 0.65 =
\* 0.625 rounded to two decimals (half to even), which is 0.62.
C12_EqualUncertaintyStoresRounded ==
    forecaster.pc = "done" /\ EqualUncertainty =>
        \A n \in 1..Len(forecaster.forecast_df) :
            forecaster.forecast_df[n].confidence_score = RoundHalfEven(625, 10)

\* C12's case: a returned forecast of two series whose rows all have the same
\* uncertainty_ratio, which is not 0.
C12_Witness ==
    /\ forecaster.pc = "done"
    /\ EqualUncertainty
    /\ Len(forecaster.forecast_df) = 2 * days_ahead
    /\ forecaster.forecasts[1].uncertainty_raw.num > 0

\* C12 as stated: the stored confidence_score is 0.625 itself.
C12_StoresUnrounded ==
    forecaster.pc = "done" /\ EqualUncertainty =>
        \A n \in 1..Len(forecaster.forecast_df) :
            10 * forecaster.forecast_df[n].confidence_score = 625

-----------------------------------------------------------------------------
(* The cold-start predictor's claims, under SpecColdStart. *)

\* C13: for every catalog size and every description of a new product,
\* get_similar_skus returns exactly min(5, catalog size) neighbours, in order
\* of non-decreasing similarity_distance, and does not raise.
C13_SimilarSkusForEveryCatalog ==
    predictor.products.exists /\ predictor.forecast.exists
    /\ predictor.response.status # 0 =>
        /\ predictor.response.status = 200
        /\ Len(predictor.response.similar_skus)
               = Min(5, Len(predictor.products.rows))
        /\ \A a, b \in 1..Len(predictor.response.similar_skus) :
               a < b => predictor.response.similar_skus[a].similarity_distance
                            <= predictor.response.similar_skus[b].similarity_distance

-----------------------------------------------------------------------------
(* The planner's allocation, under SpecPlanner. *)

\* The allocated units of a (sku, cluster) of the allocation plan, summed over
\* its cities.
AllocatedTotal(sku_id, power_cluster) ==
    LET mine == { a \in allocation_plan.rows :
                      a.sku_id = sku_id /\ a.power_cluster = power_cluster }
    IN  SumOver(mine, [a \in mine |-> a.allocated_units])

-----------------------------------------------------------------------------
(* The requests on missing or shared tables. *)

\* C15: a request that finds a required table missing answers 404 (not
\* found), never the generic failure 500; get-capacity-plan and run-scenario
\* need production_plan.csv.
C15_MissingTableIsNotFound ==
    /\ capacity_response.status = 500 =>
           capacity_response.detail # "FileNotFoundError"
    /\ scenario_response.status = 500 =>
           scenario_response.detail # "FileNotFoundError"

\* C16: a reader that runs concurrently with one writer of a table sees the
\* complete old contents (or no file, when there was none) or the complete
\* new contents, never a partially written file.
C16_ReaderSeesOldOrNew ==
    csv_io.read.status # "none" =>
        \/ /\ csv_io.read.status = "read"
           /\ csv_io.read.rows = csv_io.read.new
        \/ /\ csv_io.read.status = "read"
           /\ csv_io.read.old_exists
           /\ csv_io.read.rows = csv_io.read.old
        \/ /\ csv_io.read.status = "FileNotFoundError"
           /\ ~csv_io.read.old_exists

\* C17: run_scenario changes no authoritative state: a step that answers a
\* scenario request leaves the forecast, products, production_plan,
\* allocation_plan, stock_risk and optimized_production_plan tables as they
\* were, and what get-capacity-plan returns is determined by the
\* production plan and the catalog alone, so it is the same after any
\* scenario runs.
C17_ScenarioChangesNoAuthoritativeState ==
    [][ /\ scenario_response' # scenario_response
               \/ scenario_results' # scenario_results =>
           UNCHANGED <<forecast, products, inventory, production_plan,
                       allocation_plan, stock_risk, optimized_production_plan>>
        /\ capacity_response' # capacity_response
               /\ capacity_response'.status = 200 =>
           /\ production_plan.exists
           /\ capacity_response'.df
                  = optimise(production_plan.rows, products, TOTAL_CAPACITY,
                             solver_ties).rows
           /\ optimized_production_plan'
                  = File(SavedColumns(capacity_response'.df)) ]_vars

\* C17's case: a scenario with a different demand and capacity has been
\* answered and saved, and the capacity plan has been returned.
C17_Witness ==
    /\ scenario_response.status = 200
    /\ scenario_response.result.scenario.demand_multiplier # 100
    /\ scenario_response.result.scenario.capacity_change_pct # 0
    /\ scenario_results.exists
    /\ production_plan.exists
    /\ capacity_response.status = 200
    /\ \E r \in scenario_response.df, p \in production_plan.rows :
           /\ r.sku_id = p.sku_id /\ r.power_cluster = p.power_cluster
           /\ r.recommended_production_qty # p.recommended_production_qty

\* C18: every operation is idempotent under retry (a second call on unchanged
\* input tables returns what the first returned and leaves the persisted
\* tables as the first left them), and no stage mutates a table it received
\* as input: the frame the planner passes to
\* generate_production_recommendations still has, after the call, the columns
\* aggregate_forecast gave it.
C18_IdempotentAndInputsUntouched ==
    [][ /\ planner_response.status # 0 =>
               /\ planner_response' = planner_response
               /\ UNCHANGED <<production_plan, allocation_plan, stock_risk>>
        /\ capacity_response.status = 200 =>
               /\ capacity_response' = capacity_response
               /\ UNCHANGED optimized_production_plan
        /\ planner_response'.status = 200 =>
               \A g \in planner_response'.sku_power_demand :
                   DOMAIN g = {"sku_id", "power_cluster", "total_predicted_demand"}
      ]_vars

\* C19: no ratio divides by zero: for every input, a (sku, cluster) of total
\* demand 0 and a capacity of 0 included, the planner, the optimizer and the
\* scenario complete, and the capacity utilization they report is a finite
\* number.
C19_RatiosAreFinite ==
    /\ planner_response.status # 500
    /\ capacity_response.status = 200 =>
           \A r \in capacity_response.df : r.capacity_utilization_pct.kind = "finite"
    /\ scenario_response.status = 200 =>
           \A r \in scenario_response.df : r.capacity_utilization_pct.kind = "finite"

-----------------------------------------------------------------------------
(* The features recursive_forecast feeds to the model, under SpecForecast. *)

\* C20: for every series, the lag_1 fed to the model when predicting day 1 is
\* the last observed daily_qty of the series, and when predicting day d >= 2
\* it is the clipped prediction made for day d - 1.
C20_Lag1IsPreviousDay ==
    \A n \in 1..Len(forecaster.forecasts) :
        LET row == forecaster.forecasts[n]
            observed == forecaster.history[row.series_key]
        IN  IF row.day = 1
            THEN row.fed.lag_1 = observed[Len(observed)]
            ELSE /\ forecaster.forecasts[n - 1].series_key = row.series_key
                 /\ forecaster.forecasts[n - 1].day = row.day - 1
                 /\ row.fed.lag_1 = forecaster.forecasts[n - 1].predicted_demand

\* The growing series a forecast row was predicted from: the observations of
\* its series followed by the predictions of the earlier days.
GrowingSeries(n) ==
    LET row == forecaster.forecasts[n]
    IN  forecaster.history[row.series_key]
            \o [j \in 1..(row.day - 1) |->
                    forecaster.forecasts[n - row.day + j].predicted_demand]

\* The entry k positions before the day being predicted, 0 when the series
\* does not reach that far back.
EntryBefore(series, k) ==
    IF Len(series) + 1 - k >= 1 THEN series[Len(series) + 1 - k] ELSE 0

\* C21: for every series and every forecast day d in 1..7, the lag_7 (lag_14)
\* fed to the model when predicting day d is the entry of the growing series
\* (observations followed by the earlier predictions) exactly 7 (14)
\* positions before day d, or 0 when the series has fewer entries.
C21_LagsAreSevenAndFourteenBack ==
    \A n \in 1..Len(forecaster.forecasts) :
        /\ forecaster.forecasts[n].fed.lag_7 = EntryBefore(GrowingSeries(n), 7)
        /\ forecaster.forecasts[n].fed.lag_14 = EntryBefore(GrowingSeries(n), 14)

-----------------------------------------------------------------------------
(* The training steps' claims, under SpecTraining. *)

SameFraction(a, b) == a.num * b.den = b.num * a.den

\* Two rows of the feature frame have the same lag and rolling features.
SameFeatures(a, b) ==
    /\ a.lag_1 = b.lag_1 /\ a.lag_7 = b.lag_7 /\ a.lag_14 = b.lag_14
    /\ SameFraction(a.rolling_mean_7, b.rolling_mean_7)
    /\ SameFraction(a.rolling_mean_14, b.rolling_mean_14)

\* C22: feature construction is leak-free: the features of a row are computed
\* from observations dated strictly before it, so when the daily_qty of one
\* observation is changed and the features are built again, every row dated
\* no later than the changed observation has the features it had before.
C22_FeaturesAreLeakFree ==
    trainer.pc = "featured" /\ trainer.changed # NoChange =>
        \A t \in 1..Len(trainer.df) :
            trainer.df[t].date <= trainer.changed.date =>
                SameFeatures(trainer.df[t], trainer.before[t])

\* The mean of the up-to-window observations of the same series immediately
\* before row t of the feature frame, 0 when there is none.
OwnMean(df, t, window) ==
    LET own == { u \in Max(1, t - window)..(t - 1) :
                     df[u].series_id = df[t].series_id }
    IN  IF own = {} THEN [num |-> 0, den |-> 1]
        ELSE [num |-> SumOver(own, [u \in own |-> df[u].daily_qty]),
              den |-> Cardinality(own)]

\* C23: for the first observation of every series all lag and rolling
\* features are 0, and for every row rolling_mean_7 (rolling_mean_14) is the
\* mean of the up-to-7 (up-to-14) immediately preceding observations of the
\* same series only.
C23_RollingMeansAreOfTheSameSeries ==
    trainer.pc = "featured" =>
        \A t \in 1..Len(trainer.df) :
            /\ SameFraction(trainer.df[t].rolling_mean_7, OwnMean(trainer.df, t, 7))
            /\ SameFraction(trainer.df[t].rolling_mean_14, OwnMean(trainer.df, t, 14))
            /\ (t = 1 \/ trainer.df[t - 1].series_id # trainer.df[t].series_id) =>
                   /\ trainer.df[t].lag_1 = 0
                   /\ trainer.df[t].lag_7 = 0
                   /\ trainer.df[t].lag_14 = 0
                   /\ trainer.df[t].rolling_mean_7.num = 0
                   /\ trainer.df[t].rolling_mean_14.num = 0

\* C24: prepare_train_data partitions the observations chronologically: the
\* training and validation sets are disjoint and cover all rows, every
\* training date is earlier than every validation date, and the validation
\* set is exactly the observations of the 14 latest calendar days, the
\* maximum date included.
C24_ValidationIsLastFourteenDays ==
    trainer.pc = "split" =>
        LET rows == { trainer.df[t] : t \in 1..Len(trainer.df) }
            max_date == CHOOSE d \in { r.date : r \in rows } :
                            \A r \in rows : r.date <= d
        IN  /\ trainer.train_df \cap trainer.val_df = {}
            /\ trainer.train_df \cup trainer.val_df = rows
            /\ \A a \in trainer.train_df, b \in trainer.val_df : a.date < b.date
            /\ trainer.val_df = { r \in rows : r.date > max_date - 14 }

\* C25: the sigma used for a series' forecast interval is the series' own
\* validation residual standard deviation when it is defined (two validation
\* rows at least); when it is not (one validation row, or none) it is the
\* global validation residual standard deviation, in both cases.
C25_SigmaIsOwnOrGlobal ==
    trainer.pc = "trained" =>
        \A k \in { r.series_id : r \in trainer.demand_data } :
            LET mine == { r \in trainer.val_df : r.series_id = k }
                n == Cardinality(mine)
                used == SigmaSquared(trainer.residual_std_map,
                                     trainer.global_residual_std, k)
            IN  IF n >= 2
                THEN SameFraction(used,
                         [num |-> n * ResidualSquares(trainer.model, mine)
                                      - ResidualSum(trainer.model, mine)
                                            * ResidualSum(trainer.model, mine),
                          den |-> n * (n - 1)])
                ELSE SameFraction(used, GlobalStdSquared(trainer.model,
                                                         trainer.val_df))

-----------------------------------------------------------------------------
(* C26: the rows recursive_forecast returns.                                *)

\* The rows of the returned forecast_df for one series and one forecast day.
RowsFor(forecast_df, series_key, day) ==
    { n \in 1..Len(forecast_df) :
        /\ forecast_df[n].series_key = series_key
        /\ forecast_df[n].day = day }

\* The series seen in the history given to recursive_forecast.
SeriesInHistory(history) ==
    { k \in DOMAIN history : Len(history[k]) > 0 }

-----------------------------------------------------------------------------
(* C27: the margin column of optimise.                                      *)

\* The multiplier of a price band, in tenths, as the claim lists them.
BandMultiplier(price_band) ==
    CASE price_band = "low" -> 10
      [] price_band = "mid" -> 13
      [] price_band = "high" -> 16
      [] price_band = "premium" -> 20

\* The products.csv rows that hold a base_cost.
PricedProducts(catalog) ==
    { [sku_id |-> sku, base_cost |-> catalog[sku].base_cost] :
      sku \in { x \in DOMAIN catalog :
                  catalog[x].listed /\ catalog[x].base_cost # NoCost } }

\* The median base_cost of the product catalog.
CatalogMedian(catalog) == MedianCost(PricedProducts(catalog))

\* The margin the claim gives a plan row of the product sku.
ClaimedMargin(catalog, sku) ==
    LET p == catalog[sku]
        band == IF p.listed /\ p.price_band # NoBand THEN p.price_band ELSE "mid"
        cost == IF p.listed /\ p.base_cost # NoCost THEN p.base_cost
                ELSE CatalogMedian(catalog)
    IN  BandMultiplier(band) * cost

\* C27: optimise gives every plan row margin = multiplier(price_band) *
\* base_cost with the multipliers low 1.0, mid 1.3, high 1.6, premium 2.0; a
\* row whose product has no price band or no catalog entry counts as mid, and
\* a row without a base_cost gets the median base_cost of the product
\* catalog.  So whenever the catalog holds a cost at all, /api/capacity
\* answers, and the margins it answers with are these.
C27_MarginIsMultiplierTimesCost ==
    (production_plan.exists /\ capacity_response # NoResponse) =>
        /\ PricedProducts(products) # {} => capacity_response.status = 200
        /\ capacity_response.status = 200 =>
               \A r \in capacity_response.df :
                   r.margin = ClaimedMargin(products, r.sku_id)

\* The part of C27 that holds: the multipliers, mid for a missing band, and
\* the cost of every row whose product has one.
C27_PricedRows ==
    (production_plan.exists /\ capacity_response # NoResponse
        /\ capacity_response.status = 200) =>
        \A r \in capacity_response.df :
            LET p == products[r.sku_id]
            IN  (p.listed /\ p.base_cost # NoCost) =>
                    r.margin = ClaimedMargin(products, r.sku_id)

\* The imputed cost is the median over the plan's rows, not over the catalog.
C27_ImputedFromPlanRows ==
    (production_plan.exists /\ capacity_response # NoResponse
        /\ capacity_response.status = 200) =>
        \A r \in capacity_response.df :
            LET p == products[r.sku_id]
                band == IF p.listed /\ p.price_band # NoBand THEN p.price_band
                        ELSE "mid"
            IN  ~(p.listed /\ p.base_cost # NoCost) =>
                    r.margin = BandMultiplier(band)
                        * MedianCost(MergeCatalog(production_plan.rows, products))

-----------------------------------------------------------------------------
(* C28: the plan optimise returns on solver success is an optimum.          *)

\* sum(optimized_qty) and sum(recommended_production_qty) of a returned plan.
TotalOptimized(df) == SumOver(df, [r \in df |-> r.optimized_qty])
TotalRecommended(df) == SumOver(df, [r \in df |-> r.recommended_production_qty])

\* sum(margin_i * y_i) of a plan y over the rows of df.
Objective(df, y) == SumOver(df, [r \in df |-> r.margin * y[r]])

\* The quantities tried for a row against the returned plan: nothing, the
\* bound, the capacity, what the other rows leave of the capacity when they
\* are at their bound, and the returned quantity with a unit more or less.
TrialQuantities(df, capacity, r) ==
    { q \in { 0, r.recommended_production_qty, capacity,
              capacity - (TotalRecommended(df) - r.recommended_production_qty),
              r.optimized_qty - 1, r.optimized_qty, r.optimized_qty + 1 } :
        0 <= q /\ q <= r.recommended_production_qty }

\* The integer plans y with 0 <= y_i <= recommended_i and sum(y) <= capacity
\* made of the trial quantities.  They hold every plan one unit moved or
\* added away from the returned one, so that a returned plan none of them
\* beats is an optimum of the linear program.
TrialPlans(df, capacity) ==
    { y \in [df -> UNION { TrialQuantities(df, capacity, r) : r \in df }] :
        /\ \A r \in df : y[r] \in TrialQuantities(df, capacity, r)
        /\ SumOver(df, y) <= capacity }

\* The returned plan as a plan y.
Returned(df) == [r \in df |-> r.optimized_qty]

\* What C28 says of one answer of optimise.
MaximizesMargin(response) ==
    (response.status = 200 /\ ~response.warning) =>
        /\ \A r \in response.df :
               0 <= r.optimized_qty /\ r.optimized_qty <= r.recommended_production_qty
        /\ TotalOptimized(response.df) <= response.capacity
        /\ \A y \in TrialPlans(response.df, response.capacity) :
               Objective(response.df, y) <= Objective(response.df, Returned(response.df))
        /\ ( /\ response.capacity < TotalRecommended(response.df)
             /\ \A r \in response.df : r.margin > 0 ) =>
               /\ TotalOptimized(response.df) = response.capacity
               /\ \A i \in response.df :
                      i.optimized_qty < i.recommended_production_qty =>
                          \A j \in response.df :
                              j.margin < i.margin => j.optimized_qty = 0

\* C28: when the solver succeeds, the plan optimise returns is feasible
\* (0 <= optimized_qty <= recommended, total within the capacity) and no
\* feasible integer plan has a larger sum(margin * qty); when the capacity is
\* below the total recommended and every margin is positive, the total
\* optimized equals the capacity and a row is cut only if every row of
\* strictly lower margin is produced at 0.
C28_PlanMaximizesMargin ==
    /\ MaximizesMargin(capacity_response)
    /\ MaximizesMargin(scenario_response)

\* The capacity binds between two rows of different positive margins: the
\* row of larger margin is produced in full, the other in part.
C28_Witness ==
    /\ capacity_response.status = 200
    /\ ~capacity_response.warning
    /\ capacity_response.capacity < TotalRecommended(capacity_response.df)
    /\ \A r \in capacity_response.df : r.margin > 0
    /\ \E i, j \in capacity_response.df :
           /\ i.margin > j.margin
           /\ i.optimized_qty = i.recommended_production_qty
           /\ 0 < j.optimized_qty
           /\ j.optimized_qty < j.recommended_production_qty

-----------------------------------------------------------------------------
(* C29: the demand predict_new_sku_demand returns for a new product.        *)

\* The ordinal of a price band: low 0, mid 1, high 2, premium 3, and mid for
\* a band that is none of these.
BandOrdinal(price_band) ==
    CASE price_band = "low" -> 0
      [] price_band = "high" -> 2
      [] price_band = "premium" -> 3
      [] OTHER -> 1

\* The catalog rows of the k = min(5, catalog size) nearest products.
NearestProducts(p) ==
    LET catalog == p.products.rows
        indices == kneighbors(catalog, p.request, p.ties, Min(5, Len(catalog))).indices
    IN  [n \in 1..Len(indices) |-> catalog[indices[n]]]

\* The forecast rows the demand is averaged over: those of the nearest
\* products, or the whole forecast when they have none.
BasisRows(p) ==
    LET nearest == NearestProducts(p)
        similar == { r \in p.forecast.rows :
                       \E n \in 1..Len(nearest) : nearest[n].sku_id = r.sku_id }
    IN  IF similar = {} THEN p.forecast.rows ELSE similar

\* The rows of a (region, segment).
GroupRows(rows, city, power_cluster) ==
    { r \in rows : r.city = city /\ r.power_cluster = power_cluster }

\* mean * (1 + 0.05 * (new band - mean neighbour band)) of a group, as the
\* fraction num / den in cents.
AdjustedMean(p, city, power_cluster) ==
    LET nearest == NearestProducts(p)
        k == Len(nearest)
        band_sum == SumOver(1..k, [n \in 1..k |-> BandOrdinal(nearest[n].price_band)])
        group == GroupRows(BasisRows(p), city, power_cluster)
    IN  [num |-> SumOver(group, [r \in group |-> r.predicted_demand])
                     * (20 * k + BandOrdinal(p.request.price_band) * k - band_sum),
         den |-> Cardinality(group) * 20 * k]

\* predict_new_sku_demand returned a frame: it has exactly one row for every
\* (region, segment) of the basis rows.
OneRowPerGroup(p) ==
    /\ \A r \in BasisRows(p) :
           Cardinality(GroupRows(p.demand_df, r.city, r.power_cluster)) = 1
    /\ \A d \in p.demand_df :
           GroupRows(BasisRows(p), d.city, d.power_cluster) # {}

\* C29 as stated: per (region, segment), predict_new_sku_demand returns the
\* mean predicted_demand of the forecast rows of the k nearest catalog
\* products (of the whole forecast when they have none) times
\* 1 + 0.05 * (ordinal band of the new product - mean ordinal band of the
\* neighbours), an unknown band of the new product counting as mid.
C29_AdjustedNeighbourMean ==
    predictor.response.status = 200 =>
        /\ OneRowPerGroup(predictor)
        /\ \A d \in predictor.demand_df :
               LET m == AdjustedMean(predictor, d.city, d.power_cluster)
               IN  d.predicted_demand * m.den = m.num

\* C29 amended: the value returned per (region, segment) is that product
\* rounded to 2 decimals (to the cent, ties to the even cent).
C29_RoundedAdjustedNeighbourMean ==
    predictor.response.status = 200 =>
        /\ OneRowPerGroup(predictor)
        /\ \A d \in predictor.demand_df :
               LET m == AdjustedMean(predictor, d.city, d.power_cluster)
               IN  d.predicted_demand = RoundHalfEven(m.num, m.den)

\* A new product of an unknown band got a demand that is not a whole number
\* of cents before rounding.
C29_Witness ==
    /\ predictor.response.status = 200
    /\ predictor.request.price_band = "luxury"
    /\ \E d \in predictor.demand_df :
           LET m == AdjustedMean(predictor, d.city, d.power_cluster)
           IN  /\ m.num % m.den # 0
               /\ d.predicted_demand = RoundHalfEven(m.num, m.den)

\* The neighbours have no forecast rows and the demand is that of the whole
\* forecast.
C29_FallbackReached ==
    /\ predictor.response.status = 200
    /\ predictor.demand_df # {}
    /\ \A r \in predictor.forecast.rows :
       \A n \in 1..Len(NearestProducts(predictor)) :
           NearestProducts(predictor)[n].sku_id # r.sku_id

-----------------------------------------------------------------------------
(* C30: scenario production against the scenario capacity.                  *)

\* Two successive answers of run_scenario for the same demand and price
\* multipliers, the second for a capacity change at least as large.
CapacityRaised(before, after) ==
    /\ before.status = 200
    /\ after.status = 200
    /\ after.result.scenario.demand_multiplier
           = before.result.scenario.demand_multiplier
    /\ after.result.scenario.price_multiplier
           = before.result.scenario.price_multiplier
    /\ before.result.scenario.capacity_change_pct
           <= after.result.scenario.capacity_change_pct

\* utilization_pct (tenths of a percent) is total_production over the
\* capacity of the same answer; no ratio is claimed for a capacity of 0.
UtilizationOfOwnCapacity(response) ==
    LET scenario == response.result.scenario
    IN  CASE scenario.capacity > 0 ->
                 scenario.utilization_pct
                     = RoundHalfEvenMul(scenario.total_production, 1000,
                                        scenario.capacity)
          [] scenario.capacity < 0 ->
                 scenario.utilization_pct
                     = - RoundHalfEvenMul(scenario.total_production, 1000,
                                          - scenario.capacity)
          [] OTHER -> TRUE

\* C30: for a fixed forecast, catalog, demand_multiplier and price_multiplier,
\* a run of run_scenario with capacity_change_pct b that follows one with
\* a <= b returns a scenario.total_production at least as large, and every
\* run's scenario.utilization_pct is its total_production over its own
\* scenario capacity.
C30_ProductionMonotoneInCapacity ==
    [][ /\ CapacityRaised(scenario_response, scenario_response') =>
               scenario_response.result.scenario.total_production
                   <= scenario_response'.result.scenario.total_production
        /\ scenario_response'.status = 200 =>
               UtilizationOfOwnCapacity(scenario_response') ]_vars

\* The part of C30 that holds: the same, between runs whose solver succeeded
\* (a scenario capacity of 0 or more).
C30_MonotoneOnSolverSuccess ==
    [][ (/\ CapacityRaised(scenario_response, scenario_response')
         /\ ~scenario_response.warning
         /\ ~scenario_response'.warning) =>
            /\ scenario_response.result.scenario.total_production
                   <= scenario_response'.result.scenario.total_production
            /\ UtilizationOfOwnCapacity(scenario_response') ]_vars

====
